---- MODULE Spec2Model ----
(***************************************************************************)
(* A model of the codec and palette core of the bitmap library (bmp.c):    *)
(* the GIF LZW coder, the BMP, GIF, PCX and TGA writers and readers over   *)
(* the byte-reader abstraction, the format dispatch, the palette reference *)
(* counts and the palette reduction (dithering) routines.                  *)
(*                                                                         *)
(* A colour is the 32 bits 0xAARRGGBB held as a two's complement integer    *)
(* (the value of the C `int` with those bits), files are sequences of      *)
(* bytes 0..255, and every function of the source is an operator of the    *)
(* same name that computes what the C code computes.                       *)
(***************************************************************************)
EXTENDS Integers, Sequences, FiniteSets, TLC

VARIABLES
    lzw,        \* one call of lzw_encode_bytes followed by lzw_decode_bytes
    codec,      \* one bm_save_* call followed by bm_load_fp / bm_load_mem
    stream,     \* a GIF or PCX stream handed to its decoder
    detect,     \* a buffer handed to bm_load_fp / bm_load_mem
    pals,       \* palettes, bitmaps and the references a caller holds
    dither      \* a bitmap and a palette handed to a palette reduction

vars == <<lzw, codec, stream, detect, pals, dither>>

(***************************************************************************)
(* Arithmetic on machine words.                                            *)
(***************************************************************************)
Min(a, b) == IF a < b THEN a ELSE b
Max(a, b) == IF a > b THEN a ELSE b

\* (v >> k) & 1
BitOf(v, k) == (v \div (2^k)) % 2

\* v | (1 << k)
SetBit(v, k) == IF BitOf(v, k) = 1 THEN v ELSE v + 2^k

RECURSIVE Reverse(_)
Reverse(s) == IF s = <<>> THEN <<>> ELSE Append(Reverse(Tail(s)), Head(s))

\* What an uninitialised or out-of-bounds byte may hold when it is read.
UninitBytes == {0, 255}

(***************************************************************************)
(* Bytes and words of a file (little endian, as the packed structs of the  *)
(* source are laid out on the machines the library is built for).          *)
(***************************************************************************)
LE16(v) == <<v % 256, (v \div 256) % 256>>
LE32(v) == <<v % 256, (v \div 256) % 256, (v \div 65536) % 256, (v \div 16777216) % 256>>

\* Unsigned 32-bit values of 2^30 and more are larger than every buffer and
\* every limit they are compared with; they are all held as Huge.
Huge == 2^30
UInt(v) == IF v < 0 \/ v > Huge THEN Huge ELSE v

\* The byte at offset off (from 0) of a block that was read.
At(bytes, off) == bytes[off + 1]
U16(bytes, off) == At(bytes, off) + 256 * At(bytes, off + 1)
\* an int32_t, a uint32_t and a short field
I32(bytes, off) ==
    LET hi == At(bytes, off + 3) IN
    U16(bytes, off) + 65536 * At(bytes, off + 2) + 16777216 * (IF hi >= 128 THEN hi - 256 ELSE hi)
U32(bytes, off) == UInt(I32(bytes, off))
I16(bytes, off) == LET u == U16(bytes, off) IN IF u >= 32768 THEN u - 65536 ELSE u

RECURSIVE Flatten(_)
Flatten(ss) ==
    IF Len(ss) = 0 THEN <<>>
    ELSE IF Len(ss) = 1 THEN ss[1]
    ELSE LET m == Len(ss) \div 2
         IN Flatten(SubSeq(ss, 1, m)) \o Flatten(SubSeq(ss, m + 1, Len(ss)))

Zeroes(n) == [i \in 1 .. n |-> 0]

(***************************************************************************)
(* BmReader: the three callbacks over a FILE* (make_file_reader) and over  *)
(* a memory buffer (make_mem_reader).  A reader is                         *)
(* [kind, buf, pos]; every callback returns the reader after the call.     *)
(***************************************************************************)
SEEK_SET == "SEEK_SET"
SEEK_CUR == "SEEK_CUR"
SEEK_END == "SEEK_END"

make_file_reader(buf) == [kind |-> "file", buf |-> buf, pos |-> 0]
make_mem_reader(buf)  == [kind |-> "mem", buf |-> buf, pos |-> 0]

\* stdio's fread on a regular file: as many bytes as there are, the count of
\* whole objects is returned.
file_fread(rd, size, nobj) ==
    LET avail == Max(0, Len(rd.buf) - rd.pos)
        got   == Min(avail, size * nobj)
    IN [rd |-> [rd EXCEPT !.pos = rd.pos + got],
        n |-> IF size = 0 THEN 0 ELSE got \div size,
        data |-> SubSeq(rd.buf, rd.pos + 1, rd.pos + got)]

\* stdio's fseek on a regular file: a negative position is an error, a
\* position past the end is not.
file_fseek(rd, offset, origin) ==
    LET base == CASE origin = SEEK_SET -> 0
                  [] origin = SEEK_CUR -> rd.pos
                  [] origin = SEEK_END -> Len(rd.buf)
        new == base + offset
    IN IF new < 0 THEN [rd |-> rd, ret |-> -1]
       ELSE [rd |-> [rd EXCEPT !.pos = new], ret |-> 0]

memread(mem, size, nobj) ==
    LET sz == size * nobj IN
    IF mem.pos + sz > Len(mem.buf) THEN [rd |-> mem, n |-> 0, data |-> <<>>]
    ELSE [rd |-> [mem EXCEPT !.pos = mem.pos + sz], n |-> nobj,
          data |-> SubSeq(mem.buf, mem.pos + 1, mem.pos + sz)]

memtell(mem) == mem.pos

\* mem->pos is an unsigned int
memseek(mem, offset, origin) ==
    LET len == Len(mem.buf)
        pos == CASE origin = SEEK_SET -> UInt(offset)
                 [] origin = SEEK_CUR -> UInt(mem.pos + offset)
                 [] origin = SEEK_END -> UInt(len - offset)
    IN IF pos >= len THEN [rd |-> [mem EXCEPT !.pos = 0], ret |-> -1]
       ELSE [rd |-> [mem EXCEPT !.pos = pos], ret |-> 0]

rd_fread(rd, size, nobj) ==
    IF rd.kind = "mem" THEN memread(rd, size, nobj) ELSE file_fread(rd, size, nobj)
rd_ftell(rd) == IF rd.kind = "mem" THEN memtell(rd) ELSE rd.pos
rd_fseek(rd, offset, origin) ==
    IF rd.kind = "mem" THEN memseek(rd, offset, origin) ELSE file_fseek(rd, offset, origin)

(***************************************************************************)
(* The write callback of bm_save_custom.  A writer is [out, calls, fail]:  *)
(* the bytes accepted so far, the number of calls made, and the call that  *)
(* fails (0 when none does).                                               *)
(***************************************************************************)
NewWriter(fail) == [out |-> <<>>, calls |-> 0, fail |-> fail]

writef(w, data) ==
    LET n == w.calls + 1 IN
    IF n = w.fail THEN [w |-> [w EXCEPT !.calls = n], ok |-> FALSE]
    ELSE [w |-> [w EXCEPT !.calls = n, !.out = w.out \o data], ok |-> TRUE]

\* a run of calls whose results the caller ignores
RECURSIVE writef_all(_, _)
writef_all(w, blocks) ==
    IF blocks = <<>> THEN w ELSE writef_all(writef(w, Head(blocks)).w, Tail(blocks))

put_byte(w, byte) == writef(w, <<byte>>)

(***************************************************************************)
(* Colours, 0xAARRGGBB in an unsigned int.                                 *)
(***************************************************************************)
RGBA(r, g, b, a) == (IF a >= 128 THEN a - 256 ELSE a) * 16777216 + r * 65536 + g * 256 + b
GetA(c) == (c \div 16777216) % 256
GetR(c) == (c \div 65536) % 256
GetG(c) == (c \div 256) % 256
GetB(c) == c % 256
\* c & 0x00FFFFFF and c | 0xFF000000
Rgb24(c) == c % 16777216
Opaque(c) == Rgb24(c) - 16777216

(***************************************************************************)
(* Palettes.  BmPalette objects live in a heap [objs, fault]: objs is the  *)
(* sequence of the objects ever allocated, a pointer is an index into it   *)
(* (NULL is 0), and fault records the first failed assert() or the first   *)
(* use of a freed object.  held counts the blocks that the GIF decoder got *)
(* from malloc, calloc or realloc (buffers, the canvas) and did not free.  *)
(***************************************************************************)
NULL == 0
NewHeap == [objs |-> <<>>, fault |-> "none", held |-> 0]
malloc(H) == [H EXCEPT !.held = @ + 1]
free(H) == [H EXCEPT !.held = @ - 1]
Fault(H, what) == IF H.fault = "none" THEN [H EXCEPT !.fault = what] ELSE H
Live(H, pal) == pal # NULL /\ ~H.objs[pal].freed

\* The colour array is calloc'ed: the entries start as 0.
bm_palette_create(H, ncolors) ==
    [heap |-> [H EXCEPT !.objs = Append(@, [ref_count |-> 1, colors |-> Zeroes(ncolors),
                                            freed |-> FALSE])],
     pal |-> Len(H.objs) + 1]

bm_palette_retain(H, pal) ==
    IF pal = NULL THEN Fault(H, "assert(pal)")
    ELSE IF H.objs[pal].freed THEN Fault(H, "use after free")
    ELSE [H EXCEPT !.objs[pal].ref_count = @ + 1]

bm_palette_release(H, pal) ==
    IF pal = NULL THEN Fault(H, "assert(pal)")
    ELSE IF H.objs[pal].freed THEN Fault(H, "use after free")
    ELSE IF ~(H.objs[pal].ref_count > 0) THEN Fault(H, "assert(pal->ref_count > 0)")
    ELSE [H EXCEPT !.objs[pal].ref_count = @ - 1,
                   !.objs[pal].freed = (H.objs[pal].ref_count - 1 = 0)]

bm_palette_count(H, pal) == Len(H.objs[pal].colors)

\* index = pal->ncolors++; color &= 0xFFFFFF; pal->colors[index] = color
bm_palette_add(H, pal, color) == [H EXCEPT !.objs[pal].colors = Append(@, Rgb24(color))]

bm_palette_set(H, pal, index, color) ==
    IF index < 0 \/ index >= bm_palette_count(H, pal) THEN H
    ELSE [H EXCEPT !.objs[pal].colors[index + 1] = color]

bm_palette_get(H, pal, index) ==
    IF index < 0 \/ index >= bm_palette_count(H, pal) THEN 0
    ELSE H.objs[pal].colors[index + 1]

(***************************************************************************)
(* Bitmaps: [w, h, data, color, palette]; data holds the pixels row by     *)
(* row, palette is a pointer into the heap.                                *)
(***************************************************************************)
NoBitmap == [w |-> 0, h |-> 0, data |-> <<>>, color |-> 0, palette |-> NULL]
IsNull(b) == b.w = 0

\* bm_create_internal and bm_create with SIZE_LIMITS: NULL for bad dimensions,
\* else a zeroed canvas with a white pen and no palette.
bm_create(w, h) ==
    IF w <= 0 \/ h <= 0 THEN NoBitmap
    ELSE IF w > 23000 \/ h > 23000 \/ w * h > 536870911 THEN NoBitmap
    ELSE [w |-> w, h |-> h, data |-> Zeroes(w * h), color |-> -1, palette |-> NULL]

\* the last error bm_create_internal leaves behind
bm_create_error(w, h) ==
    IF w <= 0 \/ h <= 0 THEN "invalid dimensions"
    ELSE IF w > 23000 \/ h > 23000 \/ w * h > 536870911 THEN "dimensions too large"
    ELSE "no error"

InBitmap(b, x, y) == x >= 0 /\ x < b.w /\ y >= 0 /\ y < b.h
BM_GET(b, x, y) == b.data[y * b.w + x + 1]
BM_SET(b, x, y, c) == [b EXCEPT !.data[y * b.w + x + 1] = c]
BM_GETR(b, x, y) == GetR(BM_GET(b, x, y))
BM_GETG(b, x, y) == GetG(BM_GET(b, x, y))
BM_GETB(b, x, y) == GetB(BM_GET(b, x, y))

\* The canvas whose pixel (x, y) is px[x, y]: what a pair of nested loops over
\* the rows and columns that sets every pixel once leaves behind.
WithPixels(b, px(_, _)) ==
    [b EXCEPT !.data = [k \in 1 .. b.w * b.h |-> px((k - 1) % b.w, (k - 1) \div b.w)]]

\* A faulty variant of bm_set_palette: the new palette is not retained.
bm_set_palette_borrowed(H, b, pal) ==
    [heap |-> IF b.palette # NULL THEN bm_palette_release(H, b.palette) ELSE H,
     b |-> [b EXCEPT !.palette = pal]]

bm_set_palette(H, b, pal) ==
    LET H1 == IF pal # NULL THEN bm_palette_retain(H, pal) ELSE H
        H2 == IF b.palette # NULL THEN bm_palette_release(H1, b.palette) ELSE H1
    IN [heap |-> H2, b |-> [b EXCEPT !.palette = pal]]

\* bm_free: returns the heap after the palette was released
bm_free(H, b) ==
    IF IsNull(b) THEN H
    ELSE IF b.palette # NULL THEN bm_palette_release(H, b.palette) ELSE H

bm_copy(H, b) ==
    LET out == bm_create(b.w, b.h) IN
    IF IsNull(out) THEN [heap |-> H, b |-> NoBitmap]
    ELSE bm_set_palette(H, [out EXCEPT !.data = b.data, !.color = b.color], b.palette)

\* What a loader returns: the canvas or NULL, the error text it set, and the
\* heap; status is "abort" when an assert() failed on the way.
LoadOk(H, b) ==
    [status |-> IF H.fault = "none" THEN "ok" ELSE "abort", b |-> b, err |-> "no error",
     heap |-> H]
LoadFail(H, err) ==
    [status |-> IF H.fault = "none" THEN "null" ELSE "abort", b |-> NoBitmap, err |-> err,
     heap |-> H]

(***************************************************************************)
(* LZW (bmp.c, GIF support).                                               *)
(*                                                                         *)
(* A memory region is [bytes |-> the bytes that were written, tail |-> the *)
(* value found in every byte after them]: reading past what was written    *)
(* reads memory nobody initialised, and the caller of the model chooses    *)
(* the tail among UninitBytes.                                             *)
(***************************************************************************)
MemByte(mem, i) == IF i < Len(mem.bytes) THEN mem.bytes[i + 1] ELSE mem.tail

\* A dictionary slot obtained from realloc() and not written yet.
UninitEntry == [prev |-> -3, code |-> -3]

\* The for-loop of lzw_read_code: bits i .. last-1, LSB first.
RECURSIVE lzw_read_bits(_, _, _, _, _)
lzw_read_bits(mem, i, last, bi, code) ==
    IF i >= last THEN code
    ELSE lzw_read_bits(mem, i + 1, last, bi * 2,
             IF BitOf(MemByte(mem, i \div 8), i % 8) = 1 THEN code + bi ELSE code)

lzw_read_code(mem, bits, pos) == lzw_read_bits(mem, pos, pos + bits, 1, 0)

\* for(di = 0; di < dict_size; di++) { dict[di].prev = -1; dict[di].code = di; }
lzw_init_dict(dict_size) == [i \in 0 .. dict_size - 1 |-> [prev |-> -1, code |-> i]]

\* realloc(dict, dict_size * sizeof *dict): the old slots keep their value
lzw_grow_dict(dict, dict_size) ==
    [i \in 0 .. dict_size - 1 |-> IF i \in DOMAIN dict THEN dict[i] ELSE UninitEntry]

\* while(ptr >= 0) { stack[sp++] = dict[ptr].code; ptr = dict[ptr].prev; }
\* The stack holds unsigned chars. ub is set when the walk read a slot that
\* was never written.
RECURSIVE lzw_walk(_, _, _)
lzw_walk(dict, ptr, stack) ==
    IF ptr < 0 THEN [stack |-> stack, ub |-> FALSE]
    ELSE IF ptr \notin DOMAIN dict \/ dict[ptr] = UninitEntry
         THEN [stack |-> stack, ub |-> TRUE]
    ELSE lzw_walk(dict, dict[ptr].prev, Append(stack, dict[ptr].code % 256))

\* One reading of a code: the new cursor, the code, and what was touched.
lzw_next_code(mem, d, bits) ==
    [d EXCEPT !.code = lzw_read_code(mem, bits, d.pos),
              !.pos = d.pos + bits,
              !.widths = Append(d.widths, bits),
              !.maxread = Max(d.maxread, (d.pos + bits - 1) \div 8)]

\* The while-loop of lzw_decode_bytes.
RECURSIVE lzw_decode_loop(_, _, _, _)
lzw_decode_loop(mem, data_len, base_size, d) ==
    LET clr == 2^base_size
        end == clr + 1
    IN
    IF ~((d.pos \div 8) <= data_len + 1) THEN [d EXCEPT !.status = "ok"]
    ELSE IF d.code = clr THEN
        lzw_decode_loop(mem, data_len, base_size,
            [lzw_next_code(mem, [d EXCEPT !.code_size = base_size,
                                          !.dict_size = 2^(base_size + 1),
                                          !.di = end + 1], base_size + 1)
                EXCEPT !.old = -1])
    ELSE IF d.code = end THEN [d EXCEPT !.status = "ok"]
    ELSE IF d.code > d.di THEN [d EXCEPT !.status = "null"]
    ELSE
        LET \* code == di: not in the table; else in the table
            start == IF d.code = d.di THEN <<d.sym % 256>> ELSE <<>>
            ptr   == IF d.code = d.di THEN d.old ELSE d.code
            w     == lzw_walk(d.dict, ptr, start)
            stack == w.stack
            sym   == stack[Len(stack)]
            out   == d.out \o Reverse(stack)
            \* update the dictionary
            add   == d.old >= 0 /\ d.di < d.dict_size
            dict1 == IF add THEN [d.dict EXCEPT ![d.di] = [prev |-> d.old, code |-> sym]]
                     ELSE d.dict
            di1   == IF add THEN d.di + 1 ELSE d.di
            grow  == d.old >= 0 /\ di1 = d.dict_size /\ d.code_size < 11
            cs1   == IF grow THEN d.code_size + 1 ELSE d.code_size
            ds1   == IF grow THEN 2^(cs1 + 1) ELSE d.dict_size
            dict2 == IF grow THEN lzw_grow_dict(dict1, ds1) ELSE dict1
        IN
        IF w.ub \/ stack = <<>> THEN [d EXCEPT !.status = "ub"]
        ELSE lzw_decode_loop(mem, data_len, base_size,
                lzw_next_code(mem, [d EXCEPT !.sym = sym, !.out = out, !.dict = dict2,
                                             !.di = di1, !.code_size = cs1,
                                             !.dict_size = ds1, !.old = d.code],
                              cs1 + 1))

\* lzw_decode_bytes(bytes, data_len, code_size, &out_len): status "ok" with the
\* decoded bytes, "null" for the NULL return, "ub" when the code read a
\* dictionary slot it never wrote.
lzw_decode_bytes(mem, data_len, code_size) ==
    LET clr == 2^code_size
        end == clr + 1
        d0 == [pos |-> 0, code |-> 0, old |-> -1, sym |-> -1,
               di |-> end + 1, code_size |-> code_size,
               dict_size |-> 2^(code_size + 1),
               dict |-> lzw_init_dict(2^(code_size + 1)),
               out |-> <<>>, status |-> "run", widths |-> <<>>, maxread |-> -1]
    IN lzw_decode_loop(mem, data_len, code_size, lzw_next_code(mem, d0, code_size + 1))

\* The for-loop of lzw_emit_code: a byte is zeroed when its bit 0 is reached.
RECURSIVE lzw_emit_bits(_, _, _, _, _)
lzw_emit_bits(buffer, i, last, m, c) ==
    IF i >= last THEN buffer
    ELSE LET byte == i \div 8
             bit  == i % 8
             b0 == IF bit = 0 THEN
                       (IF byte < Len(buffer) THEN [buffer EXCEPT ![byte + 1] = 0]
                        ELSE Append(buffer, 0))
                   ELSE buffer
             b1 == IF (c \div m) % 2 = 1
                   THEN [b0 EXCEPT ![byte + 1] = SetBit(@, bit)]
                   ELSE b0
         IN lzw_emit_bits(b1, i + 1, last, m * 2, c)

lzw_emit_code(e, c, bits) ==
    [e EXCEPT !.buffer = lzw_emit_bits(e.buffer, e.pos, e.pos + bits, 1, c),
              !.pos = e.pos + bits,
              !.widths = Append(e.widths, bits)]

\* The search of the dictionary: the first i in max(string,0) .. di-1 with
\* dict[i].prev == string && dict[i].code == character, or -1.
lzw_find(e, character) ==
    LET lo == IF e.string > 0 THEN e.string ELSE 0
        hits == {i \in lo .. e.di - 1 :
                    e.dict[i].prev = e.string /\ e.dict[i].code = character}
    IN IF hits = {} THEN -1 ELSE CHOOSE i \in hits : \A j \in hits : i <= j

\* The body of the for-loop of lzw_encode_bytes for one input byte,
\* including the `goto reread` after a clear code.
RECURSIVE lzw_encode_char(_, _, _)
lzw_encode_char(e, base_size, character) ==
    LET clr == 2^base_size
        end == clr + 1
        res == lzw_find(e, character)
    IN
    IF res >= 0 THEN [e EXCEPT !.string = res, !.prev = res]
    ELSE
        LET e1 == lzw_emit_code(e, e.prev, e.code_size + 1) IN
        IF e1.di = e1.dict_size /\ ~(e1.code_size < 11) THEN
            \* emit a clear code, reset and reread the character
            lzw_encode_char(
                [lzw_emit_code(e1, clr, e1.code_size + 1)
                    EXCEPT !.code_size = base_size,
                           !.dict_size = 2^(base_size + 1),
                           !.di = end + 1,
                           !.string = -1,
                           !.prev = clr],
                base_size, character)
        ELSE
            LET grow == e1.di = e1.dict_size
                cs1  == IF grow THEN e1.code_size + 1 ELSE e1.code_size
                ds1  == IF grow THEN 2^(cs1 + 1) ELSE e1.dict_size
                dict1 == IF grow THEN lzw_grow_dict(e1.dict, ds1) ELSE e1.dict
            IN [e1 EXCEPT !.code_size = cs1, !.dict_size = ds1,
                          !.dict = [dict1 EXCEPT ![e1.di] =
                                       [prev |-> e1.string, code |-> character]],
                          !.di = e1.di + 1,
                          !.string = character,
                          !.prev = character]

RECURSIVE lzw_encode_loop(_, _, _, _)
lzw_encode_loop(e, base_size, bytes, ii) ==
    IF ii > Len(bytes) THEN e
    ELSE lzw_encode_loop(lzw_encode_char(e, base_size, bytes[ii]), base_size, bytes, ii + 1)

\* lzw_encode_bytes(bytes, data_len, code_size, &out_len): the buffer (its
\* first tlen bytes, the ones that were written) and the widths emitted.
lzw_encode_bytes(bytes, code_size) ==
    LET clr == 2^code_size
        end == clr + 1
        dict_size == 2^(code_size + 1)
        dict0 == [lzw_init_dict(dict_size) EXCEPT ![clr] = [prev |-> -1, code |-> -1],
                                                  ![end] = [prev |-> -1, code |-> -1]]
        e0 == [dict |-> dict0, di |-> end + 1, code_size |-> code_size,
               dict_size |-> dict_size, string |-> -1, prev |-> clr,
               buffer |-> <<>>, pos |-> 0, widths |-> <<>>]
        e1 == lzw_encode_loop(lzw_emit_code(e0, clr, code_size + 1), code_size, bytes, 1)
        e2 == lzw_emit_code(e1, e1.prev, e1.code_size + 1)
        e3 == lzw_emit_code(e2, end, e2.code_size + 1)
        tlen == (e3.pos \div 8) + (IF e3.pos % 8 # 0 THEN 1 ELSE 0)
    IN [buffer |-> e3.buffer, out_len |-> tlen, widths |-> e3.widths]

(***************************************************************************)
(* BMP.                                                                    *)
(***************************************************************************)
\* bm_save_bmp: the magic, the file header and the DIB header (2 + 12 + 40
\* bytes), then rows of 24-bit BGR pixels, bottom row first, each padded to a
\* multiple of four bytes.  The result of the last writef is not looked at.
bm_save_bmp(b, w0) ==
    LET pad0 == 4 - ((b.w * 3) % 4)
        padding == IF pad0 > 3 THEN 0 ELSE pad0
        rs == b.w * 3 + padding
        bmp_offset == 2 + 12 + 40
        bmp_bytesz == rs * b.h
        filesz == bmp_offset + bmp_bytesz
        magic == <<66, 77>>
        hdr == LE32(filesz) \o LE16(0) \o LE16(0) \o LE32(bmp_offset)
        dib == LE32(40) \o LE32(b.w) \o LE32(b.h) \o LE16(1) \o LE16(24) \o LE32(0)
               \o LE32(bmp_bytesz) \o LE32(2835) \o LE32(2835) \o LE32(0) \o LE32(0)
        \* data[p] for p = (h - j - 1) * rs + i * 3 + {0, 1, 2}; the rest stays 0
        data == [p1 \in 1 .. bmp_bytesz |->
                    LET p == p1 - 1
                        j == b.h - (p \div rs) - 1
                        q == p % rs
                        i == q \div 3
                    IN IF q >= b.w * 3 THEN 0
                       ELSE CASE q % 3 = 0 -> BM_GETB(b, i, j)
                              [] q % 3 = 1 -> BM_GETG(b, i, j)
                              [] q % 3 = 2 -> BM_GETR(b, i, j)]
        w1 == writef(w0, magic)
        w2 == writef(w1.w, hdr)
        w3 == writef(w2.w, dib)
    IN IF ~w1.ok THEN [ret |-> 0, w |-> w1.w, err |-> "unable to write BMP header"]
       ELSE IF ~w2.ok THEN [ret |-> 0, w |-> w2.w, err |-> "unable to write BMP header"]
       ELSE IF ~w3.ok THEN [ret |-> 0, w |-> w3.w, err |-> "unable to write BMP header"]
       ELSE [ret |-> 1, w |-> writef(w3.w, data).w, err |-> "no error"]

\* A byte of the pixel data; u is what a read past the end of the malloc'ed
\* block finds.
DataByte(data, p, u) == IF p < Len(data) THEN data[p + 1] ELSE u

\* The palette index of pixel (i, j) for the depths up to 8.
bmp_index(dib, data, rs, u, i, j) ==
    LET y == dib.height - j - 1 IN
    CASE dib.bitspp = 8 -> DataByte(data, y * rs + i, u)
      [] dib.bitspp = 4 ->
            LET byt == DataByte(data, y * rs + (i \div 2), u) IN
            IF i % 2 = 1 THEN byt % 16 ELSE byt \div 16
      [] dib.bitspp = 1 -> BitOf(DataByte(data, y * rs + (i \div 8), u), 7 - (i % 8))

\* A faulty variant of bmp_pixel: the rows are taken top-down, as if the
\* height of the file were negative.
bmp_pixel_topdown(dib, H, pal, data, rs, u, i, j) ==
    LET p == j * rs + i * 3 IN
    RGBA(DataByte(data, p + 2, u), DataByte(data, p + 1, u), DataByte(data, p, u), 255)

\* The pixel loops of bm_load_bmp_rd for each depth.  pal is the palette read
\* from the file (depths up to 8).  At depth 32 the masks are the standard
\* ones of BI_RGB: the channels are the bytes 2, 1 and 0 of the pixel, each
\* scaled by 255.0f / 255.
bmp_pixel(dib, H, pal, data, rs, u, i, j) ==
    LET y == dib.height - j - 1 IN
    CASE dib.bitspp <= 8 -> bm_palette_get(H, pal, bmp_index(dib, data, rs, u, i, j))
      [] dib.bitspp = 32 ->
            LET p == y * rs + i * 4 IN
            RGBA(DataByte(data, p + 2, u), DataByte(data, p + 1, u), DataByte(data, p, u), 255)
      [] OTHER ->
            LET p == y * rs + i * 3 IN
            RGBA(DataByte(data, p + 2, u), DataByte(data, p + 1, u), DataByte(data, p, u), 255)

\* goto error: bm_free(b), then the palette is released once more at `end`.
bmp_error(H, b, pal, err) ==
    LET H1 == bm_free(H, b)
        H2 == IF pal # NULL THEN bm_palette_release(H1, pal) ELSE H1
    IN LoadFail(H2, err)

\* bm_load_bmp_rd from the seek to the pixel data on.
bmp_load_data(rd, H, b, pal, start_offset, hdr, dib, u) ==
    LET sk == rd_fseek(rd, hdr.bmp_offset + start_offset, SEEK_SET)
        rs == (((dib.width * dib.bitspp) \div 8 + 3) \div 4) * 4
        nbytes == IF dib.bmp_bytesz = 0 THEN rs * b.h ELSE dib.bmp_bytesz
        rdat == rd_fread(sk.rd, 1, nbytes)
        data == rdat.data
        px(i, j) == bmp_pixel(dib, H, pal, data, rs, u, i, j)
        badindex == dib.bitspp <= 8 /\ \E i \in 0 .. b.w - 1 : \E j \in 0 .. b.h - 1 :
                        ~(bmp_index(dib, data, rs, u, i, j) < dib.ncolors)
        H1 == IF badindex THEN Fault(H, "assert(p < dib.ncolors)") ELSE H
        H2 == IF pal # NULL THEN bm_palette_release(H1, pal) ELSE H1
    IN IF sk.ret # 0 THEN bmp_error(H, b, pal, "out of memory")
       ELSE IF rdat.n # nbytes THEN bmp_error(H, b, pal, "fread on data")
       ELSE IF dib.bitspp = 32 /\ dib.compress_type = 3
            THEN [LoadFail(H, "BI_BITFIELDS") EXCEPT !.status = "unmodelled"]
       ELSE LoadOk(H2, WithPixels(b, px))

\* bm_load_bmp_rd from bm_create on: the palette and the bit masks.
bmp_load_body(rd, H, start_offset, hdr, dib0, u) ==
    LET b0 == bm_create(dib0.width, dib0.height)
        dib == IF dib0.bitspp <= 8 /\ dib0.ncolors = 0
               THEN [dib0 EXCEPT !.ncolors = 2 ^ dib0.bitspp] ELSE dib0
        haspal == dib.bitspp <= 8
        rpal == rd_fread(rd, 4, dib.ncolors)
        cr == bm_palette_create(H, dib.ncolors)
        color(i) == RGBA(At(rpal.data, 4 * i + 2), At(rpal.data, 4 * i + 1),
                         At(rpal.data, 4 * i), At(rpal.data, 4 * i + 3))
        Hp == [cr.heap EXCEPT !.objs[cr.pal].colors = [i \in 1 .. dib.ncolors |-> color(i - 1)]]
        sp == bm_set_palette(Hp, b0, cr.pal)
        rd1 == IF haspal THEN rpal.rd ELSE rd
        H1 == IF haspal THEN sp.heap ELSE H
        b1 == IF haspal THEN sp.b ELSE b0
        pal == IF haspal THEN cr.pal ELSE NULL
        \* the masks of BI_BITFIELDS are read; only depth 32 uses them, and
        \* that combination is left out of the model
        rmask == rd_fread(rd1, 1, 12)
        rd2 == IF dib.compress_type = 3 THEN rmask.rd ELSE rd1
    IN IF IsNull(b0) THEN LoadFail(H, bm_create_error(dib0.width, dib0.height))
       ELSE IF haspal /\ ~(dib.ncolors <= 256)
            THEN LoadFail(Fault(H, "assert(dib.ncolors <= 256)"), "no error")
       ELSE IF haspal /\ rpal.n # dib.ncolors THEN bmp_error(H, b0, NULL, "fread on palette")
       ELSE IF dib.compress_type = 3 /\ rmask.n # 12
            THEN bmp_error(H1, b1, pal, "fread on bitfields")
       ELSE bmp_load_data(rd2, H1, b1, pal, start_offset, hdr, dib, u)

bm_load_bmp_rd(rd, H, u) ==
    LET start_offset == rd_ftell(rd)
        rm == rd_fread(rd, 2, 1)
        rh == rd_fread(rm.rd, 12, 1)
        rdib == rd_fread(rh.rd, 40, 1)
        hdr == [bmp_offset |-> U32(rh.data, 8)]
        dib == [width |-> I32(rdib.data, 4), height |-> I32(rdib.data, 8),
                bitspp |-> U16(rdib.data, 14), compress_type |-> U32(rdib.data, 16),
                bmp_bytesz |-> U32(rdib.data, 20), ncolors |-> U32(rdib.data, 32)]
    IN IF rm.n # 1 THEN LoadFail(H, "fread on magic")
       ELSE IF rm.data # <<66, 77>> THEN LoadFail(H, "bad magic")
       ELSE IF rh.n # 1 \/ rdib.n # 1 THEN LoadFail(H, "fread on header")
       ELSE IF dib.bitspp \notin {1, 4, 8, 24, 32} THEN LoadFail(H, "unsupported BMP type")
       ELSE IF dib.compress_type \notin {0, 3}
            THEN LoadFail(H, "unsupported compression type")
       ELSE bmp_load_body(rdib.rd, H, start_offset, hdr, dib, u)

(***************************************************************************)
(* TGA.                                                                    *)
(***************************************************************************)
bm_rgb(r, g, b) == RGBA(r, g, b, 255)
bm_rgba(r, g, b, a) == RGBA(r, g, b, a)

\* The 18 bytes of struct tga_header.
tga_header(id_length, map_type, img_type, map_index, map_length, map_size,
           xo, yo, w, h, bpp, img_desc) ==
    <<id_length, map_type, img_type>> \o LE16(map_index) \o LE16(map_length) \o <<map_size>>
    \o LE16(xo) \o LE16(yo) \o LE16(w) \o LE16(h) \o <<bpp, img_desc>>

tga_parse_header(d) ==
    [id_length |-> At(d, 0), map_type |-> At(d, 1), img_type |-> At(d, 2),
     map_index |-> U16(d, 3), map_length |-> U16(d, 5), map_size |-> At(d, 7),
     w |-> U16(d, 12), h |-> U16(d, 14), bpp |-> At(d, 16), img_desc |-> At(d, 17)]

\* is_tga_file: the educated guess from the header; the reader is put back
\* where it was.
is_tga_file(rd) ==
    LET start == rd_ftell(rd)
        r == rd_fread(rd, 18, 1)
        head == tga_parse_header(r.data)
        rv == IF r.n # 1 THEN 0
              ELSE IF head.map_type # 0 /\ head.map_type # 1 THEN 0
              ELSE IF head.img_type \notin {0, 1, 2, 3, 9, 10, 11} THEN 0
              ELSE IF head.map_type # 0
                   THEN (IF head.map_size \notin {8, 15, 16, 24, 32} THEN 0 ELSE 1)
              ELSE IF head.bpp \notin {8, 15, 16, 24, 32} THEN 0
              ELSE 1
    IN [rv |-> rv, rd |-> rd_fseek(r.rd, start, SEEK_SET).rd]

\* A faulty variant of tga_run_length: the run is taken to go on to the end
\* of the row.
tga_run_to_row_end(b, x, y, c, n) == Min(128, b.w - x)

\* while(n < 128 && x + n < b->w && BM_GET(b, x + n, y) == c) n++;
RECURSIVE tga_run_length(_, _, _, _, _)
tga_run_length(b, x, y, c, n) ==
    IF n < 128 /\ x + n < b.w /\ BM_GET(b, x + n, y) = c
    THEN tga_run_length(b, x, y, c, n + 1) ELSE n

\* The loop that collects a raw packet: it stops before a pixel that starts
\* a run.  Returns the pixel bytes appended and the count n.
RECURSIVE tga_raw_packet(_, _, _, _, _)
tga_raw_packet(b, x, y, n, bytes) ==
    IF ~(n < 128 /\ x + n < b.w) THEN [n |-> n, bytes |-> bytes]
    ELSE LET c == BM_GET(b, x + n, y) IN
         IF x + n + 1 < b.w /\ BM_GET(b, x + n + 1, y) = c THEN [n |-> n, bytes |-> bytes]
         ELSE tga_raw_packet(b, x, y, n + 1, bytes \o <<GetB(c), GetG(c), GetR(c)>>)

\* The while-loop of bm_save_tga (TGA_SAVE_RLE): one packet per turn.
RECURSIVE tga_save_loop(_, _, _)
tga_save_loop(b, w0, i) ==
    IF ~(i < b.w * b.h) THEN [ret |-> 1, w |-> w0, err |-> "no error"]
    ELSE LET y == b.h - 1 - (i \div b.w)
             x == i % b.w
             c == BM_GET(b, x, y)
             first == <<GetB(c), GetG(c), GetR(c)>>
             isrun == x < b.w - 1 /\ BM_GET(b, x + 1, y) = c
             raw == tga_raw_packet(b, x, y, 1, first)
             n == IF isrun THEN tga_run_length(b, x, y, c, 1) ELSE raw.n
             packet == IF isrun THEN <<128 + (n - 1)>> \o first ELSE <<n - 1>> \o raw.bytes
             wr == writef(w0, packet)
         IN IF ~wr.ok THEN [ret |-> 0, w |-> wr.w, err |-> "error writing TGA data"]
            ELSE tga_save_loop(b, wr.w, i + n)

\* bm_save_tga: always 24 bits, RLE, origin at the lower left.
bm_save_tga(b, w0) ==
    LET head == tga_header(0, 0, 10, 0, 0, 0, 0, 0, b.w % 65536, b.h % 65536, 24, 0)
        wr == writef(w0, head)
    IN IF ~wr.ok THEN [ret |-> 0, w |-> wr.w, err |-> "error opening file for TGA output"]
       ELSE tga_save_loop(b, wr.w, 0)

\* tga_decode_pixel: [ret, set, c, fail]; set tells whether bm_set was called
\* with c, fail whether an assert on the depth failed.
tga_decode_pixel(bytes, head, color_map, u) ==
    LET t == head.img_type % 8
        mapped == t = 1
        bpp == IF mapped THEN head.map_size ELSE head.bpp
        off == (bytes[1] * bpp) \div 8 - head.map_index
        src(k) == IF mapped
                  THEN (IF off + k >= 0 /\ off + k < Len(color_map)
                        THEN color_map[off + k + 1] ELSE u)
                  ELSE bytes[k + 1]
        c16 == src(1) * 256 + src(0)
        five(v) == ((v % 32) * 8) % 256
        none == [ret |-> 1, set |-> FALSE, c |-> 0, fail |-> FALSE]
    IN IF t \in {1, 3} /\ head.bpp # 8 THEN [none EXCEPT !.ret = 0, !.fail = TRUE]
       ELSE IF t = 1 /\ head.map_type = 0 THEN [none EXCEPT !.ret = 0]
       ELSE IF t \in {1, 2} /\ bpp \in {15, 16} THEN
                [none EXCEPT !.set = TRUE,
                             !.c = bm_rgb(five(c16 \div 1024), five(c16 \div 32), five(c16))]
       ELSE IF t \in {1, 2} /\ bpp = 24 THEN
                [none EXCEPT !.set = TRUE, !.c = bm_rgb(src(2), src(1), src(0))]
       ELSE IF t \in {1, 2} /\ bpp = 32 THEN
                [none EXCEPT !.set = TRUE, !.c = bm_rgba(src(2), src(1), src(0), src(3))]
       ELSE IF t \in {1, 2} THEN none
       ELSE IF t = 3 THEN [none EXCEPT !.set = TRUE, !.c = bm_rgb(bytes[1], bytes[1], bytes[1])]
       ELSE [none EXCEPT !.ret = 0]

\* bytes[0 .. k-1] overwritten by what fread delivered
tga_fill(bytes, data) == [k \in 1 .. 4 |-> IF k <= Len(data) THEN data[k] ELSE bytes[k]]

\* The loops of bm_load_tga_rd.  s = [rd, bmp, i, j, nreps, rle, bytes];
\* j = nreps means that the next packet starts.
RECURSIVE tga_load_loop(_, _, _, _, _)
tga_load_loop(s, H, head, color_map, u) ==
    LET np == head.w * head.h
        isrle == BitOf(head.img_type, 3) = 1
        rr == rd_fread(s.rd, 1, 1)
        y0 == s.i \div head.w
        x == s.i % head.w
        y == IF BitOf(head.img_desc, 5) = 0 THEN head.h - 1 - y0 ELSE y0
        toread == BitOf(s.rle, 7) = 0 \/ s.j = 0
        rp == rd_fread(s.rd, head.bpp \div 8, 1)
        rd1 == IF toread THEN rp.rd ELSE s.rd
        bytes1 == IF toread THEN tga_fill(s.bytes, rp.data) ELSE s.bytes
        px == tga_decode_pixel(bytes1, head, color_map, u)
    IN
    IF s.j >= s.nreps THEN
        IF ~(s.i < np) THEN LoadOk(H, s.bmp)
        ELSE IF isrle THEN
            IF rr.n # 1 THEN LoadFail(bm_free(H, s.bmp), "no error")
            ELSE tga_load_loop([s EXCEPT !.rd = rr.rd, !.rle = At(rr.data, 0), !.j = 0,
                                         !.nreps = (At(rr.data, 0) % 128) + 1],
                               H, head, color_map, u)
        ELSE tga_load_loop([s EXCEPT !.rle = 0, !.j = 0,
                                     !.nreps = IF s.i + 255 >= np THEN np - s.i ELSE 255],
                           H, head, color_map, u)
    ELSE IF ~(y < head.h) THEN LoadFail(Fault(H, "assert(y < bmp->h)"), "no error")
    ELSE IF toread /\ rp.n # 1 THEN LoadFail(bm_free(H, s.bmp), "error reading TGA data")
    ELSE IF px.fail THEN LoadFail(Fault(H, "assert(head->img_spec.bpp == 8)"), "no error")
    ELSE IF px.set /\ ~InBitmap(s.bmp, x, y)
         THEN LoadFail(Fault(H, "assert(x >= 0 && x < b->w && y >= 0 && y < b->h)"), "no error")
    ELSE IF px.ret = 0 THEN LoadFail(bm_free(H, s.bmp), "error decoding TGA data")
    ELSE tga_load_loop([s EXCEPT !.rd = rd1, !.bytes = bytes1, !.i = s.i + 1, !.j = s.j + 1,
                                 !.bmp = IF px.set THEN BM_SET(s.bmp, x, y, px.c) ELSE s.bmp],
                       H, head, color_map, u)

bm_load_tga_rd(rd, H, u) ==
    LET chk == is_tga_file(rd)
        r == rd_fread(chk.rd, 18, 1)
        head == tga_parse_header(r.data)
        rd1 == IF head.id_length > 0 THEN rd_fseek(r.rd, head.id_length, SEEK_CUR).rd ELSE r.rd
        bmp == bm_create(head.w, head.h)
        \* calloc(length, size) bytes, of which length * (size / 8) are read
        rmap == rd_fread(rd1, head.map_size \div 8, head.map_length)
        color_map == [k \in 1 .. head.map_length * head.map_size |->
                         IF k <= Len(rmap.data) THEN rmap.data[k] ELSE 0]
        rd2 == IF head.map_type # 0 THEN rmap.rd ELSE rd1
        s0 == [rd |-> rd2, bmp |-> bmp, i |-> 0, j |-> 0, nreps |-> 0, rle |-> 0,
               bytes |-> <<u, u, u, u>>]
    IN IF chk.rv = 0 THEN LoadFail(Fault(H, "assert(is_tga_file(rd))"), "no error")
       ELSE IF r.n # 1 THEN LoadFail(H, "error reading TGA header")
       ELSE IF head.img_type = 0
            THEN (IF IsNull(bmp) THEN LoadFail(H, bm_create_error(head.w, head.h))
                  ELSE LoadOk(H, bmp))
       ELSE IF IsNull(bmp) THEN LoadFail(H, bm_create_error(head.w, head.h))
       ELSE IF head.map_type # 0 /\ rmap.n # head.map_length
            THEN LoadFail(bm_free(H, bmp), "error reading TGA color map")
       ELSE tga_load_loop(s0, H, head, color_map, u)

(***************************************************************************)
(* Nearest colours and palette reduction (dithering).                      *)
(***************************************************************************)
\* The radicand of the distance of RGB_BETTER_COMPARE.  The code compares
\* the square roots, as doubles; the order is that of the radicands.
ColorDist(c1, c2) ==
    LET rmean == (GetR(c1) + GetR(c2)) \div 2
        r == GetR(c1) - GetR(c2)
        g == GetG(c1) - GetG(c2)
        b == GetB(c1) - GetB(c2)
    IN ((512 + rmean) * r * r) \div 256 + 4 * g * g + ((767 - rmean) * b * b) \div 256

\* the scan with `if(d <= md)`: the last entry at the least distance
bm_palette_nearest_index_last(H, pal, color) ==
    LET cols == H.objs[pal].colors
        d(i) == ColorDist(color, cols[i + 1])
    IN IF cols = <<>> THEN 0
       ELSE CHOOSE m \in 0 .. Len(cols) - 1 :
                /\ \A i \in 0 .. Len(cols) - 1 : d(m) <= d(i)
                /\ \A i \in m + 1 .. Len(cols) - 1 : d(i) > d(m)

\* The linear scan with `if(d < md)`: the first entry at the least distance,
\* 0 for an empty palette.
bm_palette_nearest_index(H, pal, color) ==
    LET cols == H.objs[pal].colors
        d(i) == ColorDist(color, cols[i + 1])
    IN IF cols = <<>> THEN 0
       ELSE CHOOSE m \in 0 .. Len(cols) - 1 :
                /\ \A i \in 0 .. Len(cols) - 1 : d(m) <= d(i)
                /\ \A i \in 0 .. m - 1 : d(i) > d(m)

\* pal->colors[index]; slot 0 of an empty palette is calloc'ed memory
bm_palette_nearest_color(H, pal, color) ==
    IF H.objs[pal].colors = <<>> THEN 0
    ELSE H.objs[pal].colors[bm_palette_nearest_index(H, pal, color) + 1]

Clamp(v) == IF v > 255 THEN 255 ELSE IF v < 0 THEN 0 ELSE v

\* A faulty variant of fs_add_factor: the error goes two pixels to the left
\* of where it belongs, onto pixels that were visited already.
fs_add_factor_behind(b, x, y, er, eg, eb, f) ==
    IF x - 2 < 0 \/ x - 2 >= b.w \/ y < 0 \/ y >= b.h THEN b
    ELSE LET c == BM_GET(b, x - 2, y)
         IN BM_SET(b, x - 2, y, RGBA(Clamp(GetR(c) + ((f * er) \div 16)),
                                     Clamp(GetG(c) + ((f * eg) \div 16)),
                                     Clamp(GetB(c) + ((f * eb) \div 16)), 0))

fs_add_factor(b, x, y, er, eg, eb, f) ==
    IF x < 0 \/ x >= b.w \/ y < 0 \/ y >= b.h THEN b
    ELSE LET c == BM_GET(b, x, y)
             R == Clamp(GetR(c) + ((f * er) \div 16))
             G == Clamp(GetG(c) + ((f * eg) \div 16))
             B == Clamp(GetB(c) + ((f * eb) \div 16))
         IN BM_SET(b, x, y, RGBA(R, G, B, 0))

\* The loops of bm_reduce_palette from pixel k = y * w + x on.
RECURSIVE fs_loop(_, _, _, _)
fs_loop(H, b, pal, k) ==
    IF k >= b.w * b.h THEN b
    ELSE LET x == k % b.w
             y == k \div b.w
             oldpixel == BM_GET(b, x, y)
             newpixel == bm_palette_nearest_color(H, pal, oldpixel)
             b0 == BM_SET(b, x, y, newpixel)
             er == GetR(oldpixel) - GetR(newpixel)
             eg == GetG(oldpixel) - GetG(newpixel)
             eb == GetB(oldpixel) - GetB(newpixel)
             b1 == fs_add_factor(b0, x + 1, y, er, eg, eb, 7)
             b2 == fs_add_factor(b1, x - 1, y + 1, er, eg, eb, 3)
             b3 == fs_add_factor(b2, x, y + 1, er, eg, eb, 5)
             b4 == fs_add_factor(b3, x + 1, y + 1, er, eg, eb, 1)
         IN fs_loop(H, b4, pal, k + 1)

\* Floyd-Steinberg.  b and pal are not NULL.
bm_reduce_palette(H, b, pal) == fs_loop(H, b, pal, 0)

atk_add_factor(b, x, y, er, eg, eb) ==
    IF x < 0 \/ x >= b.w \/ y < 0 \/ y >= b.h THEN b
    ELSE LET c == BM_GET(b, x, y)
             R == Clamp(GetR(c) + (er \div 8))
             G == Clamp(GetG(c) + (eg \div 8))
             B == Clamp(GetB(c) + (eb \div 8))
         IN BM_SET(b, x, y, RGBA(R, G, B, 0))

RECURSIVE atk_loop(_, _, _, _)
atk_loop(H, b, pal, k) ==
    IF k >= b.w * b.h THEN b
    ELSE LET x == k % b.w
             y == k \div b.w
             oldpixel == BM_GET(b, x, y)
             newpixel == bm_palette_nearest_color(H, pal, oldpixel)
             b0 == BM_SET(b, x, y, newpixel)
             er == GetR(oldpixel) - GetR(newpixel)
             eg == GetG(oldpixel) - GetG(newpixel)
             eb == GetB(oldpixel) - GetB(newpixel)
             b1 == atk_add_factor(b0, x + 1, y, er, eg, eb)
             b2 == atk_add_factor(b1, x + 2, y, er, eg, eb)
             b3 == atk_add_factor(b2, x - 1, y + 1, er, eg, eb)
             b4 == atk_add_factor(b3, x, y + 1, er, eg, eb)
             b5 == atk_add_factor(b4, x + 1, y + 1, er, eg, eb)
             b6 == atk_add_factor(b5, x, y + 2, er, eg, eb)
         IN atk_loop(H, b6, pal, k + 1)

bm_reduce_palette_atk(H, b, pal) == atk_loop(H, b, pal, 0)

bayer4x4 == <<1, 9, 3, 11, 13, 5, 15, 7, 4, 12, 2, 10, 16, 8, 14, 6>>
bayer8x8 == <<1, 49, 13, 61, 4, 52, 16, 64,
              33, 17, 45, 29, 36, 20, 48, 32,
              9, 57, 5, 53, 12, 60, 8, 56,
              41, 25, 37, 21, 44, 28, 40, 24,
              3, 51, 15, 63, 2, 50, 14, 62,
              35, 19, 47, 31, 34, 18, 46, 30,
              11, 59, 7, 55, 10, 58, 6, 54,
              43, 27, 39, 23, 42, 26, 38, 22>>

\* Ordered dithering: every pixel is biased by the matrix and replaced by the
\* nearest palette colour; no pixel depends on another.
reduce_palette_bayer(H, b, pal, bayer, dim, fac) ==
    LET px(x, y) ==
            LET oldpixel == BM_GET(b, x, y)
                f == bayer[(y % dim) * dim + (x % dim) + 1]
                bias(v) == Clamp(v + (v * f) \div fac - fac \div 2)
            IN bm_palette_nearest_color(H, pal,
                   RGBA(bias(GetR(oldpixel)), bias(GetG(oldpixel)), bias(GetB(oldpixel)), 0))
    IN WithPixels(b, px)

bm_reduce_palette_OD4(H, b, pal) == reduce_palette_bayer(H, b, pal, bayer4x4, 4, 17)
bm_reduce_palette_OD8(H, b, pal) == reduce_palette_bayer(H, b, pal, bayer8x8, 8, 65)

\* bytes[i] = bm_palette_get(pal, dk), dk the first entry at the least distance
bm_reduce_palette_nearest(H, b, pal) ==
    LET px(x, y) == bm_palette_get(H, pal, bm_palette_nearest_index(H, pal, BM_GET(b, x, y)))
    IN WithPixels(b, px)

(***************************************************************************)
(* Building a palette from the colours of a bitmap.                        *)
(***************************************************************************)
\* The elements of a finite set of integers in increasing order.
RECURSIVE SortedSeq(_)
SortedSeq(S) ==
    IF S = {} THEN <<>>
    ELSE LET m == CHOOSE v \in S : \A o \in S : v <= o IN <<m>> \o SortedSeq(S \ {m})

\* qsort by the colour without alpha (pixels that differ in alpha only keep
\* their order here; qsort may leave them in any order).
RECURSIVE SortNoAlpha(_)
SortNoAlpha(s) ==
    IF s = <<>> THEN <<>>
    ELSE LET k == CHOOSE i \in 1 .. Len(s) :
                    /\ \A j \in 1 .. Len(s) : Rgb24(s[i]) <= Rgb24(s[j])
                    /\ \A j \in 1 .. i - 1 : Rgb24(s[j]) > Rgb24(s[i])
         IN <<s[k]>> \o SortNoAlpha(SubSeq(s, 1, k - 1) \o SubSeq(s, k + 1, Len(s)))

\* count_colors_build_palette: the distinct colours without alpha, sorted;
\* -1 when there are more than 256.
count_colors_build_palette(b) ==
    LET colors == SortedSeq({Rgb24(b.data[k]) : k \in 1 .. Len(b.data)})
    IN IF Len(colors) > 256 THEN [count |-> -1, colors |-> <<>>]
       ELSE [count |-> Len(colors), colors |-> colors]

bm_quantize_uniform(H, b, K) ==
    LET np == b.w * b.h
        pixels == SortNoAlpha(b.data)
        cr == bm_palette_create(H, K)
    IN [heap |-> [cr.heap EXCEPT !.objs[cr.pal].colors =
                      [i \in 1 .. K |-> pixels[((i - 1) * (np - 1)) \div (K - 1) + 1]]],
        pal |-> cr.pal]

\* bm_make_palette: the palette is created, attached to b and released by
\* the function; the bitmap holds the only reference.
bm_make_palette(H, b) ==
    LET cc == count_colors_build_palette(b)
        cr == bm_palette_create(H, cc.count)
        made == IF cc.count > 0
                THEN [heap |-> [cr.heap EXCEPT !.objs[cr.pal].colors = cc.colors], pal |-> cr.pal]
                ELSE bm_quantize_uniform(H, b, 256)
        sp == bm_set_palette(made.heap, b, made.pal)
    IN [heap |-> bm_palette_release(sp.heap, made.pal), b |-> sp.b,
        ncolors |-> bm_palette_count(made.heap, made.pal)]

\* A faulty variant of get_palette_mapping: every colour maps to entry 0.
get_palette_mapping_first(H, palette, color) == 0

\* make_palette_mapping and get_palette_mapping: the index of an entry of
\* the palette with the colour (without alpha), -1 when there is none.  The
\* binary search may return any entry of that colour; the lowest is taken.
get_palette_mapping(H, palette, color) ==
    LET cols == H.objs[palette].colors
        hits == {i \in 0 .. Len(cols) - 1 : Rgb24(cols[i + 1]) = Rgb24(color)}
    IN IF hits = {} THEN -1 ELSE CHOOSE i \in hits : \A j \in hits : i <= j

\* the triplets written blue first
triplets_from_palette_bgr(H, palette, n) ==
    LET cols == H.objs[palette].colors IN
    Flatten([i \in 1 .. n |-> IF i <= Len(cols)
                              THEN <<GetB(cols[i]), GetG(cols[i]), GetR(cols[i])>>
                              ELSE <<0, 0, 0>>])

\* triplets_from_palette: 256 RGB triplets, zero after the palette's entries
triplets_from_palette(H, palette, n) ==
    LET cols == H.objs[palette].colors IN
    Flatten([i \in 1 .. n |-> IF i <= Len(cols)
                              THEN <<GetR(cols[i]), GetG(cols[i]), GetB(cols[i])>>
                              ELSE <<0, 0, 0>>])

(***************************************************************************)
(* PCX.                                                                    *)
(***************************************************************************)
\* a | b on bytes
RECURSIVE ByteOr(_, _)
ByteOr(a, b) ==
    IF a = 0 THEN b ELSE IF b = 0 THEN a
    ELSE (IF a % 2 = 1 \/ b % 2 = 1 THEN 1 ELSE 0) + 2 * ByteOr(a \div 2, b \div 2)

\* The 128 bytes of struct pcx_header; the 16-colour palette, the reserved
\* byte and the padding are zero.
pcx_header(version, encoding, bpp, xmin, ymin, xmax, ymax, vert_dpi, hori_dpi,
           planes, bytes_per_line, paltype) ==
    <<10, version, encoding, bpp>> \o LE16(xmin) \o LE16(ymin) \o LE16(xmax) \o LE16(ymax)
    \o LE16(vert_dpi) \o LE16(hori_dpi) \o Zeroes(48) \o <<0, planes>>
    \o LE16(bytes_per_line) \o LE16(paltype) \o LE16(0) \o LE16(0) \o Zeroes(54)

\* One row of bm_save_pcx from column x on: runs of up to 63 equal pixels.
\* Returns the bytes, and whether a colour was not found in the palette.
RECURSIVE pcx_save_row(_, _, _, _, _, _)
pcx_save_row(H, b, palette, y, x, acc) ==
    IF ~(x < b.w) THEN acc
    ELSE LET c == BM_GET(b, x, y)
             same == {n \in 1 .. Min(63, b.w - x) :
                         \A k \in 0 .. n - 1 : BM_GET(b, x + k, y) = c}
             cnt == CHOOSE n \in same : \A m \in same : m <= n
             i == get_palette_mapping(H, palette, c)
             bytes == IF cnt = 1 /\ i < 192 THEN <<i % 256>> ELSE <<192 + cnt, i % 256>>
         IN pcx_save_row(H, b, palette, y, x + cnt,
                [bytes |-> acc.bytes \o bytes,
                 bad |-> acc.bad \/ ~(i >= 0 /\ i < bm_palette_count(H, palette))])

\* bm_save_pcx, the end: the rows, the marker 12 and the palette are written
\* and the copy is freed.  H1 and b1 are the heap and the bitmap after the
\* palette was made, rp the dithered copy, rows what pcx_save_row gave.
pcx_save_rows(H1, b1, w, rp, rows, bytes_per_line) ==
    LET c == rp.b
        palette == b1.palette
        body == Flatten([y \in 1 .. c.h |->
                    rows[y].bytes \o Zeroes(Max(0, bytes_per_line - c.w))])
        wp == writef(writef_all(w, [k \in 1 .. Len(body) + 1 |->
                                       IF k <= Len(body) THEN <<body[k]>> ELSE <<12>>]),
                     triplets_from_palette(H1, palette, 256))
    IN IF \E y \in 1 .. c.h : rows[y].bad
       THEN [ret |-> 0, w |-> w, err |-> "no error", b |-> b1,
             heap |-> Fault(rp.heap, "assert(i >= 0 && i < color_count)")]
       ELSE [ret |-> IF wp.ok THEN 1 ELSE 0, w |-> wp.w, b |-> b1,
             err |-> IF wp.ok THEN "no error" ELSE "error writing PCX palette",
             heap |-> bm_free(rp.heap, c)]

\* the copy that is dithered and written: [heap, b]
pcx_save_copy(cp, palette) ==
    bm_set_palette(cp.heap, bm_reduce_palette(cp.heap, cp.b, palette), palette)

\* bm_save_pcx after the header was written (wh is the result of that writef)
pcx_save_body(H1, b1, wh, rp, bytes_per_line) ==
    LET color_count == bm_palette_count(H1, b1.palette) IN
    IF ~wh.ok
    THEN [ret |-> 0, w |-> wh.w, err |-> "error writing PCX header", heap |-> H1, b |-> b1]
    ELSE IF ~(color_count > 0 /\ color_count <= 256)
    THEN [ret |-> 0, w |-> wh.w, err |-> "no error", b |-> b1,
          heap |-> Fault(rp.heap, "assert(*count > 0 && *count <= 256)")]
    ELSE pcx_save_rows(H1, b1, wh.w, rp,
             [y \in 1 .. rp.b.h |->
                 pcx_save_row(rp.heap, rp.b, b1.palette, y - 1, 0,
                              [bytes |-> <<>>, bad |-> FALSE])],
             bytes_per_line)

\* bm_save_pcx once the bitmap has a palette (m = [heap, b])
pcx_save_header(m, w0) ==
    LET b == m.b
        bpl0 == b.w % 65536
        bytes_per_line == IF bpl0 % 2 = 1 THEN bpl0 + 1 ELSE bpl0
        hdr == pcx_header(5, 1, 8, 0, 0, (b.w - 1) % 65536, (b.h - 1) % 65536,
                          b.h % 65536, b.w % 65536, 1, bytes_per_line, 1)
    IN IF bm_palette_count(m.heap, b.palette) > 256
       THEN [ret |-> 0, w |-> w0, err |-> "too many palette colors to save PCX",
             heap |-> m.heap, b |-> b]
       ELSE pcx_save_body(m.heap, b, writef(w0, hdr),
                          pcx_save_copy(bm_copy(m.heap, b), b.palette), bytes_per_line)

\* if(!palette) { bm_make_palette(b); palette = bm_get_palette(b); }
save_palette(H, b) ==
    IF b.palette = NULL THEN bm_make_palette(H, b)
    ELSE [heap |-> H, b |-> b, ncolors |-> bm_palette_count(H, b.palette)]

\* bm_save_pcx: returns the result, the writer, the heap and the bitmap that
\* was passed (bm_make_palette attaches a palette to it when it has none).
bm_save_pcx(H, b, w0) == pcx_save_header(save_palette(H, b), w0)

pcx_parse_header(d) ==
    [manuf |-> At(d, 0), version |-> At(d, 1), encoding |-> At(d, 2), bpp |-> At(d, 3),
     xmin |-> U16(d, 4), ymin |-> U16(d, 6), xmax |-> U16(d, 8), ymax |-> U16(d, 10),
     planes |-> At(d, 65), bytes_per_line |-> U16(d, 66)]

\* One row of the decoding loops of bm_load_pcx_rd: the planes of row s.y.
\* s = [rd, b, y, p, x].  Returns [done, res, s]: done with the result of the
\* load when it ends in this row, else the state at the start of the next.
RECURSIVE pcx_load_row(_, _, _, _)
pcx_load_row(s, H, hdr, pal) ==
    LET r1 == rd_fread(s.rd, 1, 1)
        isrun == At(r1.data, 0) \div 64 = 3
        r2 == rd_fread(r1.rd, 1, 1)
        cnt == IF isrun THEN At(r1.data, 0) % 64 ELSE 1
        i == IF isrun THEN At(r2.data, 0) ELSE At(r1.data, 0)
        rd1 == IF isrun THEN r2.rd ELSE r1.rd
        b == s.b
        read_error == [done |-> TRUE, s |-> s,
                       res |-> LoadFail(bm_free(H, b), "error reading PCX data")]
        \* one plane: the pixels x .. x + n - 1 get the palette colour
        n1 == Min(cnt, b.w - s.x)
        c1 == bm_palette_get(H, pal, i)
        b1 == [b EXCEPT !.data = [k \in 1 .. Len(b.data) |->
                  IF k - 1 >= s.y * b.w + s.x /\ k - 1 < s.y * b.w + s.x + n1
                  THEN c1 ELSE b.data[k]]]
        \* three planes: byte i is or-ed into the channel of plane p
        shift == CASE s.p = 0 -> 65536 [] s.p = 1 -> 256 [] OTHER -> 1
        or3(c) == c + shift * (ByteOr((c \div shift) % 256, i) - ((c \div shift) % 256))
        b3 == [b EXCEPT !.data = [k \in 1 .. Len(b.data) |->
                  IF k - 1 >= s.y * b.w + s.x /\ k - 1 < s.y * b.w + s.x + cnt
                  THEN or3(b.data[k]) ELSE b.data[k]]]
    IN
    IF ~(s.p < hdr.planes) THEN
        [done |-> FALSE, res |-> LoadOk(H, b), s |-> [s EXCEPT !.y = s.y + 1, !.p = 0, !.x = 0]]
    ELSE IF ~(s.x < hdr.bytes_per_line) THEN
        pcx_load_row([s EXCEPT !.p = s.p + 1, !.x = 0], H, hdr, pal)
    ELSE IF r1.n # 1 THEN read_error
    ELSE IF isrun /\ r2.n # 1 THEN read_error
    ELSE IF hdr.planes = 1 THEN
        IF cnt > b.w - s.x
        THEN \* if(x == b->w) goto next;
             pcx_load_row([s EXCEPT !.rd = rd1, !.b = b1, !.p = s.p + 1, !.x = 0], H, hdr, pal)
        ELSE pcx_load_row([s EXCEPT !.rd = rd1, !.b = b1, !.x = s.x + cnt], H, hdr, pal)
    ELSE IF s.x + cnt > b.w
         THEN [done |-> TRUE, s |-> s,
               res |-> LoadFail(Fault(H, "assert(x >= 0 && x < b->w && y >= 0 && y < b->h)"),
                                "no error")]
    ELSE pcx_load_row([s EXCEPT !.rd = rd1, !.b = b3, !.x = s.x + cnt], H, hdr, pal)

\* for(y = 0; y < b->h; y++): r is what pcx_load_row gave for the row before
RECURSIVE pcx_load_loop(_, _, _, _)
pcx_load_next(r, H, hdr, pal) ==
    IF r.done THEN r.res ELSE pcx_load_loop(r.s, H, hdr, pal)

pcx_load_loop(s, H, hdr, pal) ==
    IF ~(s.y < s.b.h) THEN LoadOk(H, s.b)
    ELSE pcx_load_next(pcx_load_row(s, H, hdr, pal), H, hdr, pal)

\* bm_load_pcx_rd after the header checks: the palette of a one-plane file
\* is read from 769 bytes before the end; the canvas is created; the palette
\* is attached and released, whichever it is.
pcx_load_body(rd, H, hdr) ==
    LET pos == rd_ftell(rd)
        sk == rd_fseek(rd, -769, SEEK_END)
        rpb == rd_fread(sk.rd, 1, 1)
        rrgb == rd_fread(rpb.rd, 3, 256)
        cr == bm_palette_create(H, 256)
        Hp == [cr.heap EXCEPT !.objs[cr.pal].colors =
                  [k \in 1 .. 256 |-> RGBA(At(rrgb.data, 3 * k - 3), At(rrgb.data, 3 * k - 2),
                                           At(rrgb.data, 3 * k - 1), 0)]]
        one == hdr.planes = 1
        pal == IF one THEN cr.pal ELSE NULL
        H1 == IF one THEN Hp ELSE H
        rd1 == IF one THEN rd_fseek(rrgb.rd, pos, SEEK_SET).rd ELSE rd
        b == bm_create(hdr.xmax - hdr.xmin + 1, hdr.ymax - hdr.ymin + 1)
        sp == bm_set_palette(H1, b, pal)
        H2 == bm_palette_release(sp.heap, pal)
    IN IF one /\ rpb.n # 1 THEN LoadFail(H, "error reading PCX info")
       ELSE IF one /\ At(rpb.data, 0) # 12 THEN LoadFail(H, "bad PCX info")
       ELSE IF one /\ rrgb.n # 256 THEN LoadFail(H, "error reading PCX palette")
       ELSE IF IsNull(b)
            THEN LoadFail(H1, bm_create_error(hdr.xmax - hdr.xmin + 1, hdr.ymax - hdr.ymin + 1))
       ELSE pcx_load_loop([rd |-> rd1, b |-> sp.b, y |-> 0, p |-> 0, x |-> 0], H2, hdr, pal)

bm_load_pcx_rd(rd, H) ==
    LET r == rd_fread(rd, 128, 1)
        hdr == pcx_parse_header(r.data)
    IN IF r.n # 1 THEN LoadFail(H, "couldn't read PCX header")
       ELSE IF hdr.manuf # 10 THEN LoadFail(H, "bad PCX header")
       ELSE IF hdr.version # 5 \/ hdr.encoding # 1 \/ hdr.bpp # 8
               \/ (hdr.planes # 1 /\ hdr.planes # 3)
            THEN LoadFail(H, "unsupported PCX type")
       ELSE pcx_load_body(r.rd, H, hdr)

(***************************************************************************)
(* GIF.                                                                    *)
(***************************************************************************)
\* sgct, the low bits of the LSD fields and the LZW code size for a palette
\* of color_count entries
gif_table_size(color_count) ==
    IF color_count > 128 THEN [sgct |-> 256, bits |-> 7, code_size |-> 8]
    ELSE IF color_count > 64 THEN [sgct |-> 128, bits |-> 6, code_size |-> 7]
    ELSE IF color_count > 32 THEN [sgct |-> 64, bits |-> 5, code_size |-> 6]
    ELSE IF color_count > 16 THEN [sgct |-> 32, bits |-> 4, code_size |-> 5]
    ELSE IF color_count > 8 THEN [sgct |-> 16, bits |-> 3, code_size |-> 4]
    ELSE [sgct |-> 8, bits |-> 2, code_size |-> 3]

\* The data sub-blocks of bm_save_gif: a length byte before every 255 bytes,
\* every byte a put_byte of its own.
gif_sub_blocks(bytes, len) ==
    Flatten([p1 \in 1 .. len |->
        LET p == p1 - 1 IN
        (IF p % 255 = 0 THEN <<(IF len - p >= 255 THEN 255 ELSE len - p)>> ELSE <<>>)
        \o <<bytes[p1]>>])

\* bm_save_gif from the graphic control extension on; w3 is the result of
\* writing the header, c the dithered copy, enc what lzw_encode_bytes gave.
gif_save_image(Hc, b1, c, w3, code_size, enc) ==
    LET w4 == writef(writef_all(w3.w, << <<33>>, <<249>> >>), <<4, 0, 0, 0, 0, 0>>)
        gif_id == <<44>> \o LE16(0) \o LE16(0) \o LE16(c.w % 65536) \o LE16(c.h % 65536) \o <<0>>
        w5 == writef(w4.w, gif_id)
        tail == <<code_size>> \o gif_sub_blocks(enc.buffer, enc.out_len) \o <<0, 59>>
        out(ret, w, err, heap) == [ret |-> ret, w |-> w, err |-> err, heap |-> heap, b |-> b1]
    IN IF ~w3.ok THEN out(0, w3.w, "couldn't write GIF header", Hc)
       ELSE IF ~w4.ok THEN out(0, w4.w, "no error", Hc)
       ELSE IF ~w5.ok THEN out(0, w5.w, "couldn't write GIF info", Hc)
       ELSE out(1, writef_all(w5.w, [k \in 1 .. Len(tail) |-> <<tail[k]>>]), "no error",
                bm_free(Hc, c))

\* the three writes of the header, the LSD and the global colour table
gif_save_header(w0, header, lsd, gct) ==
    LET w1 == writef(w0, header)
        w2 == writef(w1.w, lsd)
    IN IF ~w1.ok THEN w1 ELSE IF ~w2.ok THEN w2 ELSE writef(w2.w, gct)

\* bm_save_gif once the copy c was dithered; index[k] is the palette index of
\* pixel k of the copy (-1 when its colour is not in the palette).
gif_save_pixels(Hc, b1, c, w0, index) ==
    LET palette == b1.palette
        color_count == bm_palette_count(Hc, palette)
        ts == gif_table_size(color_count)
        bg0 == get_palette_mapping(Hc, palette, c.color)
        background == IF bg0 >= 0 THEN bg0 ELSE 0
        out(ret, w, err, heap) == [ret |-> ret, w |-> w, err |-> err, heap |-> heap, b |-> b1]
    IN IF ~(color_count > 0)
       THEN out(0, w0, "no error", Fault(Hc, "assert(*count > 0 && *count <= 256)"))
       ELSE IF \E k \in 1 .. c.w * c.h : ~(index[k] >= 0 /\ index[k] < color_count)
       THEN out(0, w0, "no error", Fault(Hc, "assert(i >= 0 && i < color_count)"))
       ELSE gif_save_image(Hc, b1, c,
                gif_save_header(w0, <<71, 73, 70, 56, 57, 97>>,
                    LE16(c.w % 65536) \o LE16(c.h % 65536) \o <<240 + ts.bits, background, 0>>,
                    triplets_from_palette(Hc, palette, ts.sgct)),
                ts.code_size,
                lzw_encode_bytes([k \in 1 .. c.w * c.h |-> index[k] % 256], ts.code_size))

\* bm_save_gif once the bitmap has a palette; cp is its copy
gif_save_copy(H1, b1, w0, cp, c) ==
    IF bm_palette_count(H1, b1.palette) > 256
    THEN [ret |-> 0, w |-> w0, err |-> "too many palette colors to save GIF",
          heap |-> H1, b |-> b1]
    ELSE gif_save_pixels(cp.heap, b1, c, w0,
             [k \in 1 .. c.w * c.h |-> get_palette_mapping(cp.heap, b1.palette, c.data[k])])

gif_save_dither(m, w0, cp) ==
    gif_save_copy(m.heap, m.b, w0, cp, bm_reduce_palette(cp.heap, cp.b, m.b.palette))

gif_save_palette(m, w0) == gif_save_dither(m, w0, bm_copy(m.heap, m.b))

\* bm_save_gif: returns the result, the writer, the heap and the bitmap that
\* was passed (bm_make_palette attaches a palette to it when it has none).
bm_save_gif(H, b, w0) == gif_save_palette(save_palette(H, b), w0)

\* gif_data_sub_blocks: [ok, rd, bytes]; bytes are the sub-blocks joined.
RECURSIVE gif_sub_block_loop(_, _, _)
gif_sub_block_loop(rd, size, bytes) ==
    LET r == rd_fread(rd, 1, size)
        rs == rd_fread(r.rd, 1, 1)
    IN IF ~(size > 0) THEN [ok |-> TRUE, rd |-> rd, bytes |-> bytes]
       ELSE IF r.n # size THEN [ok |-> FALSE, rd |-> r.rd, bytes |-> <<>>]
       ELSE IF rs.n # 1 THEN [ok |-> FALSE, rd |-> rs.rd, bytes |-> <<>>]
       ELSE gif_sub_block_loop(rs.rd, At(rs.data, 0), bytes \o r.data)

gif_data_sub_blocks(rd) ==
    LET rs == rd_fread(rd, 1, 1) IN
    IF rs.n # 1 THEN [ok |-> FALSE, rd |-> rs.rd, bytes |-> <<>>]
    ELSE gif_sub_block_loop(rs.rd, At(rs.data, 0), <<>>)

\* memset(&gce, 0, sizeof gce)
NoGce == [block_size |-> 0, fields |-> 0, delay |-> 0, trans_index |-> 0, terminator |-> 0]

\* gif_read_extension: [ret, rd, gce, heap].  The plain text and the
\* application extension are read as structs of 11 and 12 bytes and then
\* sub-blocks; the buffer gif_data_sub_blocks returns is only tested.
gif_read_extension(rd, H, gce) ==
    LET ri == rd_fread(rd, 1, 1)
        rl == rd_fread(ri.rd, 1, 1)
        label == At(rl.data, 0)
        rg == rd_fread(rl.rd, 6, 1)
        rt == rd_fread(rl.rd, 11, 1)
        ra == rd_fread(rl.rd, 12, 1)
        sub(rd1) == LET s == gif_data_sub_blocks(rd1) IN
                    [ret |-> IF s.ok THEN 1 ELSE 0, rd |-> s.rd, gce |-> gce,
                     heap |-> IF s.ok THEN malloc(H) ELSE H]
        fail(rd1) == [ret |-> 0, rd |-> rd1, gce |-> gce, heap |-> H]
    IN IF ri.n # 1 THEN fail(ri.rd)
       ELSE IF At(ri.data, 0) # 33 THEN fail(ri.rd)
       ELSE IF rl.n # 1 THEN fail(rl.rd)
       ELSE IF label = 249 THEN
            IF rg.n # 1 THEN fail(rg.rd)
            ELSE [ret |-> 1, rd |-> rg.rd, heap |-> H,
                  gce |-> [block_size |-> At(rg.data, 0), fields |-> At(rg.data, 1),
                           delay |-> U16(rg.data, 2), trans_index |-> At(rg.data, 4),
                           terminator |-> At(rg.data, 5)]]
       ELSE IF label = 254 THEN sub(rl.rd)
       ELSE IF label = 1 THEN (IF rt.n # 1 THEN fail(rt.rd) ELSE sub(rt.rd))
       ELSE IF label = 255 THEN (IF ra.n # 1 THEN fail(ra.rd) ELSE sub(ra.rd))
       ELSE fail(rl.rd)

\* The extension loop of gif_read_image: extensions are read until one
\* cannot be; the reader is put back to where that one started.
RECURSIVE gif_extension_loop(_, _, _)
gif_extension_loop(rd, H, gce) ==
    LET pos == rd_ftell(rd)
        e == gif_read_extension(rd, H, gce)
    IN IF e.ret = 0 THEN [rd |-> rd_fseek(e.rd, pos, SEEK_SET).rd, gce |-> gce, heap |-> H]
       ELSE gif_extension_loop(e.rd, e.heap, e.gce)

\* The row of the image that line y of the data goes to (Appendix E for
\* interlaced images), as the loop of gif_read_tbid computes it.
RECURSIVE gif_truey(_, _, _, _, _, _)
gif_truey(y, height, top, grp, inty, inti) ==
    LET inty1 == inty + inti
        wrap == inty1 >= height
        grp1 == IF wrap THEN grp + 1 ELSE grp
        inti2 == IF ~wrap THEN inti
                 ELSE CASE grp1 = 2 -> 8 [] grp1 = 3 -> 4 [] grp1 = 4 -> 2 [] OTHER -> inti
        inty2 == IF ~wrap THEN inty1
                 ELSE CASE grp1 = 2 -> 4 [] grp1 = 3 -> 2 [] grp1 = 4 -> 1 [] OTHER -> inty1
    IN IF y = 0 THEN inty + top
       ELSE gif_truey(y - 1, height, top, grp1, inty2, inti2)

\* The pixel loops of gif_read_tbid from index i of the decoded bytes on.
RECURSIVE gif_pixel_loop(_, _, _, _, _, _, _, _)
gif_pixel_loop(H, bmp, gif_id, gce, pal, trans_flag, decoded, i) ==
    LET y == i \div gif_id.width
        x == i % gif_id.width
        truey == IF gif_id.intl THEN gif_truey(y, gif_id.height, gif_id.top, 1, 0, 8)
                 ELSE y + gif_id.top
        c == decoded[i + 1]
        col == bm_palette_get(H, pal, c)
        set == IF trans_flag /\ col = gce.trans_index THEN Rgb24(col) ELSE Opaque(col)
    IN IF ~(i < gif_id.width * gif_id.height) THEN [rv |-> 1, bmp |-> bmp, heap |-> H]
       ELSE IF ~(truey >= 0 /\ truey < bmp.h)
            THEN [rv |-> 0, bmp |-> bmp,
                  heap |-> Fault(H, "assert(truey >= 0 && truey < gif->bmp->h)")]
       ELSE IF ~(c < bm_palette_count(H, pal)) THEN [rv |-> 0, bmp |-> bmp, heap |-> H]
       ELSE gif_pixel_loop(H, BM_SET(bmp, x + gif_id.left, truey, set), gif_id, gce, pal,
                           trans_flag, decoded, i + 1)

\* gif_read_tbid once the image data was decoded (dec)
gif_plot(rd, H, bmp1, gif_id, gce, pal, trans_flag, dec) ==
    IF dec.status = "null" THEN [rv |-> 1, rd |-> rd, bmp |-> bmp1, heap |-> H]
    ELSE IF dec.status = "ub"
    THEN [rv |-> 0, rd |-> rd, bmp |-> bmp1,
          heap |-> Fault(H, "read of a dictionary slot that was never written")]
    ELSE IF Len(dec.out) # gif_id.width * gif_id.height
    THEN [rv |-> 0, rd |-> rd, bmp |-> bmp1, heap |-> H]
    ELSE [rd |-> rd] @@ gif_pixel_loop(H, bmp1, gif_id, gce, pal, trans_flag, dec.out, 0)

\* gif_read_tbid once the sub-blocks were read (sb); u is the value of the
\* bytes after the buffer of gif_data_sub_blocks, which ends with a zero byte.
\* H0 is the heap before the buffer was allocated; free(bytes) is reached
\* only at the end of the block that handles a buffer with len > 0.
gif_read_data(sb, H0, bmp, gif_id, gce, pal, min_code_size, u) ==
    LET len == Len(sb.bytes)
        Hb == IF sb.ok THEN malloc(H0) ELSE H0
        H == free(Hb)
        present == gce.block_size # 0
        dispose == IF present THEN (gce.fields \div 4) % 8 ELSE 0
        trans_flag == present /\ gce.fields % 2 = 1
        bmp1 == IF trans_flag
                THEN [bmp EXCEPT !.color = bm_palette_get(H, pal, gce.trans_index)] ELSE bmp
        inarea(k) == LET x == (k - 1) % bmp1.w
                         y == (k - 1) \div bmp1.w
                     IN /\ x >= gif_id.left /\ x < gif_id.left + gif_id.width
                        /\ y >= gif_id.top /\ y < gif_id.top + gif_id.height
        filled == [bmp1 EXCEPT !.data = [k \in 1 .. Len(bmp1.data) |->
                                            IF inarea(k) THEN bmp1.color ELSE bmp1.data[k]]]
        out(rv, b, heap) == [rv |-> rv, rd |-> sb.rd, bmp |-> b, heap |-> heap]
    IN IF ~(sb.ok /\ len > 0) THEN out(1, bmp, Hb)
       ELSE IF gif_id.top + gif_id.height > bmp.h \/ gif_id.left + gif_id.width > bmp.w
            THEN out(0, bmp1, Hb)
       ELSE IF dispose = 2 THEN out(1, filled, H)
       ELSE IF dispose = 3 THEN out(1, bmp1, H)
       ELSE gif_plot(sb.rd, H, bmp1, gif_id, gce, pal, trans_flag,
                     lzw_decode_bytes([bytes |-> sb.bytes \o <<0>>, tail |-> u], len,
                                      min_code_size))

\* gif_read_tbid: [rv, rd, bmp, heap]
gif_read_tbid(rd, H, bmp, gif_id, gce, pal, u) ==
    LET rm == rd_fread(rd, 1, 1) IN
    IF rm.n # 1 THEN [rv |-> 0, rd |-> rm.rd, bmp |-> bmp, heap |-> H]
    ELSE gif_read_data(gif_data_sub_blocks(rm.rd), H, bmp, gif_id, gce, pal,
                       At(rm.data, 0), u)

\* if(lct) bm_palette_release(pal), after gif_read_tbid returned t
gif_release_lct(t, lpal) ==
    [rv |-> t.rv, rd |-> t.rd, bmp |-> t.bmp, heap |-> bm_palette_release(t.heap, lpal)]

\* gif_read_image with a local colour table: rp is the read of its slct
\* triplets, cr the palette created for it
gif_read_lct(rp, cr, slct, bmp, gif_id, gce, u) ==
    gif_release_lct(
        gif_read_tbid(rp.rd,
            [cr.heap EXCEPT !.objs[cr.pal].colors =
                [k \in 1 .. slct |-> RGBA(At(rp.data, 3 * k - 3), At(rp.data, 3 * k - 2),
                                          At(rp.data, 3 * k - 1), 0)]],
            bmp, gif_id, gce, cr.pal, u),
        cr.pal)

\* gif_read_image from the image descriptor on; ri is the read of its 10 bytes
gif_read_descriptor(ri, H, bmp, gce, pal, u) ==
    LET fields == At(ri.data, 9)
        gif_id == [separator |-> At(ri.data, 0), left |-> U16(ri.data, 1),
                   top |-> U16(ri.data, 3), width |-> U16(ri.data, 5),
                   height |-> U16(ri.data, 7), intl |-> BitOf(fields, 6) = 1]
        lct == BitOf(fields, 7) = 1
        slct == 2^((fields % 8) + 1)
        rp == rd_fread(ri.rd, 3, slct)
        fail(rd1) == [rv |-> 0, rd |-> rd1, bmp |-> bmp, heap |-> H]
    IN IF ri.n # 1 THEN fail(ri.rd)
       ELSE IF gif_id.separator # 44 THEN fail(ri.rd)
       ELSE IF lct /\ rp.n # slct THEN fail(rp.rd)
       ELSE IF lct THEN gif_read_lct(rp, bm_palette_create(H, slct), slct, bmp, gif_id, gce, u)
       ELSE gif_read_tbid(ri.rd, H, bmp, gif_id, gce, pal, u)

gif_read_extensions(ex, bmp, pal, u) ==
    gif_read_descriptor(rd_fread(ex.rd, 10, 1), ex.heap, bmp, ex.gce, pal, u)

\* gif_read_image: [rv, rd, bmp, heap].  version is 87 or 89.
gif_read_image(rd, H, version, bmp, pal, u) ==
    gif_read_extensions(IF version >= 89 THEN gif_extension_loop(rd, H, NoGce)
                        ELSE [rd |-> rd, gce |-> NoGce, heap |-> H],
                        bmp, pal, u)

\* The trailer, read where the last gif_read_image started.
gif_read_trailer(rt, H, bmp) ==
    IF rt.n # 1 \/ At(rt.data, 0) # 59
    THEN LoadFail(free(bm_free(H, bmp)), "unable to read GIF trailer")
    ELSE LoadOk(H, bmp)

\* for(;;) { pos = ftell; if(!gif_read_image(...)) { fseek(pos); break; } }
\* and then the trailer; im is what gif_read_image returned.
RECURSIVE gif_image_loop(_, _, _, _, _, _)
gif_image_next(pos, im, version, pal, u) ==
    IF im.heap.fault # "none" THEN LoadFail(im.heap, "no error")
    ELSE IF im.rv # 0 THEN gif_image_loop(im.rd, im.heap, version, im.bmp, pal, u)
    ELSE gif_read_trailer(rd_fread(rd_fseek(im.rd, pos, SEEK_SET).rd, 1, 1), im.heap, im.bmp)

gif_image_loop(rd, H, version, bmp, pal, u) ==
    gif_image_next(rd_ftell(rd), gif_read_image(rd, H, version, bmp, pal, u), version, pal, u)

\* bm_load_gif_rd from bm_set_palette on; sp is what it returned
gif_load_images(rd, sp, pal, version, u) ==
    gif_image_loop(rd, bm_palette_release(sp.heap, pal), version, sp.b, pal, u)

\* bm_load_gif_rd from the global colour table on; rl is the read of the LSD,
\* rp the read of the table, cr the palette created for it
gif_load_gct(rl, rp, cr, H, bmp, gct, sgct, version, u) ==
    LET background == At(rl.data, 5)
        \* palette[background] of a table of which only sgct entries were read
        bgb(k) == IF 3 * background + k < Len(rp.data) THEN At(rp.data, 3 * background + k)
                  ELSE u
        cleared == [bmp EXCEPT !.data = [k \in 1 .. Len(bmp.data) |->
                                            RGBA(bgb(0), bgb(1), bgb(2), 255)],
                               !.color = 0]
        Hp == IF gct
              THEN [cr.heap EXCEPT !.objs[cr.pal].colors =
                      [k \in 1 .. sgct |-> RGBA(At(rp.data, 3 * k - 3), At(rp.data, 3 * k - 2),
                                                At(rp.data, 3 * k - 1), 0)]]
              ELSE cr.heap
    IN IF gct /\ rp.n # sgct THEN LoadFail(H, "unable to read GIF palette")
       ELSE IF IsNull(bmp)
            THEN LoadFail(Fault(H, "gif.bmp is NULL"),
                          bm_create_error(U16(rl.data, 0), U16(rl.data, 2)))
       ELSE gif_load_images(IF gct THEN rp.rd ELSE rl.rd,
                            bm_set_palette(Hp, IF gct THEN cleared ELSE bmp, cr.pal),
                            cr.pal, version, u)

\* bm_load_gif_rd from bm_create on: Hc is the heap that holds the canvas
gif_load_held(rl, Hc, bmp, gct, sgct, version, u) ==
    gif_load_gct(rl, rd_fread(rl.rd, 3, sgct), bm_palette_create(Hc, sgct), Hc, bmp, gct,
                 sgct, version, u)

gif_load_canvas(rl, H, bmp, gct, sgct, version, u) ==
    gif_load_held(rl, IF IsNull(bmp) THEN H ELSE malloc(H), bmp, gct, sgct, version, u)

bm_load_gif_rd(rd, H, u) ==
    LET rh == rd_fread(rd, 6, 1)
        signature == SubSeq(rh.data, 1, 3)
        ver == SubSeq(rh.data, 4, 6)
        rl == rd_fread(rh.rd, 7, 1)
        fields == At(rl.data, 4)
        gct == BitOf(fields, 7) = 1
        sgct == IF gct THEN 2^((fields % 8) + 1) ELSE fields % 8
    IN IF rh.n # 1 THEN LoadFail(H, "unable to read GIF header")
       ELSE IF signature # <<71, 73, 70>> THEN LoadFail(H, "bad GIF signature")
       ELSE IF ver # <<56, 55, 97>> /\ ver # <<56, 57, 97>>
            THEN LoadFail(H, "unable to determine GIF version")
       ELSE IF rl.n # 1 THEN LoadFail(H, "unable to read GIF LSD")
       ELSE gif_load_canvas(rl, H, bm_create(U16(rl.data, 0), U16(rl.data, 2)), gct, sgct,
                            IF ver = <<56, 55, 97>> THEN 87 ELSE 89, u)

(***************************************************************************)
(* Netpbm (P1 .. P6).  The file is read into str[0 .. len + 1]; str[len]   *)
(* is set to 0 and str[len + 1] is never written.                          *)
(***************************************************************************)
PbmCh(str, u, i) == IF i < Len(str) THEN str[i + 1] ELSE IF i = Len(str) THEN 0 ELSE u
isspace(c) == c \in {32, 9, 10, 11, 12, 13}
isdigit(c) == c >= 48 /\ c <= 57

\* C's integer division, which truncates towards zero (d > 0)
TruncDiv(a, d) == IF a >= 0 THEN a \div d ELSE -((-a) \div d)

RECURSIVE pbm_skip_space(_, _, _)
pbm_skip_space(str, u, p) ==
    IF isspace(PbmCh(str, u, p)) THEN pbm_skip_space(str, u, p + 1) ELSE p

\* while(*p != '\n') { if(*p == '\0') return NULL; p++; }   (-1 for NULL)
RECURSIVE pbm_skip_comment(_, _, _)
pbm_skip_comment(str, u, p) ==
    IF PbmCh(str, u, p) = 10 THEN p
    ELSE IF PbmCh(str, u, p) = 0 THEN -1
    ELSE pbm_skip_comment(str, u, p + 1)

RECURSIVE pbm_token_end(_, _, _)
pbm_token_end(str, u, e) ==
    IF PbmCh(str, u, e) # 0 /\ ~isspace(PbmCh(str, u, e)) THEN pbm_token_end(str, u, e + 1)
    ELSE e

\* tokenize_pbm from position p: [ok, p, e, r]: the token is str[p .. e - 1],
\* str[e] is overwritten with 0, and r is where the next call starts.
RECURSIVE tokenize_pbm(_, _, _)
tokenize_pbm(str, u, p0) ==
    LET p == pbm_skip_space(str, u, p0)
        nl == pbm_skip_comment(str, u, p)
        e == pbm_token_end(str, u, p)
        none == [ok |-> FALSE, p |-> 0, e |-> 0, r |-> p0]
    IN IF PbmCh(str, u, p) = 0 THEN none
       ELSE IF PbmCh(str, u, p) = 35
            THEN (IF nl < 0 THEN none ELSE tokenize_pbm(str, u, nl))
       ELSE [ok |-> TRUE, p |-> p, e |-> e, r |-> IF PbmCh(str, u, e) # 0 THEN e + 1 ELSE e]

\* p[k] of a token after its terminator was written
pbm_tok_ch(str, u, t, k) ==
    IF t.p + k = t.e THEN 0 ELSE PbmCh(str, u, t.p + k)

\* atoi of a token: an optional sign and the leading digits
RECURSIVE pbm_digits(_, _, _, _, _)
pbm_digits(str, u, t, k, v) ==
    IF t.p + k < t.e /\ isdigit(PbmCh(str, u, t.p + k))
    THEN pbm_digits(str, u, t, k + 1, v * 10 + (PbmCh(str, u, t.p + k) - 48))
    ELSE v

atoi(str, u, t) ==
    LET c == pbm_tok_ch(str, u, t, 0) IN
    IF c = 45 THEN -pbm_digits(str, u, t, 1, 0)
    ELSE IF c = 43 THEN pbm_digits(str, u, t, 1, 0)
    ELSE pbm_digits(str, u, t, 0, 0)

\* 0xFF000000 | (pr << 16) | (pg << 8) | pb on 32-bit words
ppm_color(pr, pg, pb) ==
    LET B(v, k) == (v \div (256^k)) % 256 IN
    RGBA(ByteOr(B(pr, 0), ByteOr(B(pg, 1), B(pb, 2))), ByteOr(B(pg, 0), B(pb, 1)), B(pb, 0), 255)

\* a char of the body as a (signed) char, scaled: (*(r++) * 255 / d) & 0xFF
ppm_scale_char(c, d) == TruncDiv((IF c >= 128 THEN c - 256 ELSE c) * 255, d) % 256

ppm_error(H, bm, err) == LoadFail(bm_free(H, bm), err)
ppm_null(H) == LoadFail(Fault(H, "bm_set on a NULL bitmap"), "no error")

\* The pixel loops: k counts the pixels set, r is the read position.
RECURSIVE ppm_loop1(_, _, _, _, _, _)
ppm_loop1(str, u, H, bm, k, r0) ==
    LET r == pbm_skip_space(str, u, r0)
        c == PbmCh(str, u, r)
        nl == pbm_skip_comment(str, u, r)
        x == k % bm.w
        y == k \div bm.w
    IN IF ~(k < Len(bm.data)) /\ ~IsNull(bm) THEN LoadOk(H, bm)
       ELSE IF r0 >= Len(str) THEN ppm_error(H, bm, "ppm: unexpected end of file")
       ELSE IF c = 0 THEN ppm_error(H, bm, "ppm: insufficient data")
       ELSE IF c = 35
            THEN ppm_loop1(str, u, H, bm, k, IF nl < 0 THEN Len(str) ELSE nl)
       ELSE IF c \notin {48, 49} THEN ppm_error(H, bm, "ppm: bad data")
       ELSE IF IsNull(bm) THEN ppm_null(H)
       ELSE ppm_loop1(str, u, H, BM_SET(bm, x, y, IF c = 48 THEN -1 ELSE -16777216), k + 1, r + 1)

\* P2 and P3: one or three numbers per pixel
RECURSIVE ppm_loop23(_, _, _, _, _, _, _, _)
ppm_loop23(str, u, H, bm, type, d, k, r) ==
    LET t1 == tokenize_pbm(str, u, r)
        t2 == tokenize_pbm(str, u, t1.r)
        t3 == tokenize_pbm(str, u, t2.r)
        v(t) == TruncDiv(atoi(str, u, t) * 255, d)
        x == k % bm.w
        y == k \div bm.w
    IN IF ~(k < Len(bm.data)) /\ ~IsNull(bm) THEN LoadOk(H, bm)
       ELSE IF type = 2 THEN
            IF ~t1.ok THEN ppm_error(H, bm, "ppm: bad value")
            ELSE IF IsNull(bm) THEN ppm_null(H)
            ELSE ppm_loop23(str, u, H, BM_SET(bm, x, y, ppm_color(v(t1), v(t1), v(t1))),
                            type, d, k + 1, t1.r)
       ELSE IF ~t1.ok THEN ppm_error(H, bm, "ppm: bad R value")
       ELSE IF ~t2.ok THEN ppm_error(H, bm, "ppm: bad G value")
       ELSE IF ~t3.ok THEN ppm_error(H, bm, "ppm: bad B value")
       ELSE IF IsNull(bm) THEN ppm_null(H)
       ELSE ppm_loop23(str, u, H, BM_SET(bm, x, y, ppm_color(v(t1), v(t2), v(t3))),
                       type, d, k + 1, t3.r)

\* P4: a byte is fetched at the start of every row and whenever the mask
\* runs out; r is the position after the byte in use.
RECURSIVE ppm_loop4(_, _, _, _, _, _, _, _)
ppm_loop4(str, u, H, bm, k, r, byte, mask) ==
    LET x == k % bm.w
        y == k \div bm.w
        rowstart == x = 0
        byte1 == IF rowstart THEN PbmCh(str, u, r) ELSE byte
        mask1 == IF rowstart THEN 128 ELSE mask
        r1 == IF rowstart THEN r + 1 ELSE r
        set == BM_SET(bm, x, y, IF (byte1 \div mask1) % 2 = 1 THEN -16777216 ELSE -1)
    IN IF ~(k < Len(bm.data)) /\ ~IsNull(bm) THEN LoadOk(H, bm)
       ELSE IF IsNull(bm) THEN ppm_null(H)
       ELSE IF mask1 = 1 THEN
            IF r1 >= Len(str) THEN ppm_error(H, bm, "ppm: unexpected end of file")
            ELSE ppm_loop4(str, u, H, set, k + 1, r1 + 1, PbmCh(str, u, r1), 128)
       ELSE ppm_loop4(str, u, H, set, k + 1, r1, byte1, mask1 \div 2)

\* P5 and P6: one or three bytes per pixel
RECURSIVE ppm_loop56(_, _, _, _, _, _, _, _)
ppm_loop56(str, u, H, bm, type, d, k, r) ==
    LET x == k % bm.w
        y == k \div bm.w
        v(i) == ppm_scale_char(PbmCh(str, u, r + i), d)
    IN IF ~(k < Len(bm.data)) /\ ~IsNull(bm) THEN LoadOk(H, bm)
       ELSE IF type = 5 THEN
            IF r >= Len(str) THEN ppm_error(H, bm, "ppm: unexpected end of file")
            ELSE IF IsNull(bm) THEN ppm_null(H)
            ELSE ppm_loop56(str, u, H, BM_SET(bm, x, y, ppm_color(v(0), v(0), v(0))),
                            type, d, k + 1, r + 1)
       ELSE IF r > Len(str) - 3 THEN ppm_error(H, bm, "ppm: unexpected end of file")
       ELSE IF IsNull(bm) THEN ppm_null(H)
       ELSE ppm_loop56(str, u, H, BM_SET(bm, x, y, ppm_color(v(0), v(1), v(2))),
                       type, d, k + 1, r + 3)

\* bm_load_ppm_rd: the length is found by seeking to the end.
bm_load_ppm_rd(rd, H, u) ==
    LET se == rd_fseek(rd, 0, SEEK_END)
        len == rd_ftell(se.rd)
        ss == rd_fseek(se.rd, 0, SEEK_SET)
        rr == rd_fread(ss.rd, 1, len)
        str == rr.data
        tp == tokenize_pbm(str, u, 0)
        type == pbm_tok_ch(str, u, tp, 1) - 48
        tw == tokenize_pbm(str, u, tp.r)
        th == tokenize_pbm(str, u, tw.r)
        hasd == type # 1 /\ type # 4
        td == tokenize_pbm(str, u, th.r)
        w == atoi(str, u, tw)
        h == atoi(str, u, th)
        d == IF hasd THEN atoi(str, u, td) ELSE 1
        r == IF hasd THEN td.r ELSE th.r
        bm == bm_create(w, h)
    IN IF rr.n # len THEN LoadFail(H, "ppm: error reading data")
       ELSE IF ~tp.ok THEN LoadFail(H, "ppm: couldn't determine type")
       ELSE IF pbm_tok_ch(str, u, tp, 0) # 80
               \/ pbm_tok_ch(str, u, tp, 1) \notin {0, 49, 50, 51, 52, 53, 54}
               \/ pbm_tok_ch(str, u, tp, 2) # 0
            THEN LoadFail(H, "ppm: invalid type")
       ELSE IF ~tw.ok THEN LoadFail(H, "ppm: bad width")
       ELSE IF ~th.ok THEN LoadFail(H, "ppm: bad height")
       ELSE IF hasd /\ ~td.ok THEN LoadFail(H, "ppm: bad depth")
       ELSE IF w <= 0 \/ h <= 0 \/ d <= 0 THEN LoadFail(H, "ppm: invalid dimensions")
       ELSE IF type = 1 THEN ppm_loop1(str, u, H, bm, 0, r)
       ELSE IF type \in {2, 3} THEN ppm_loop23(str, u, H, bm, type, d, 0, r)
       ELSE IF type = 4 THEN ppm_loop4(str, u, H, bm, 0, r, 0, 128)
       ELSE IF type \in {5, 6} THEN ppm_loop56(str, u, H, bm, type, d, 0, r)
       ELSE LoadFail(H, "ppm: format not supported")

(***************************************************************************)
(* bm_load_fp and bm_load_mem: the format is guessed from the first four   *)
(* bytes and the decoder is called on the rewound reader.                  *)
(***************************************************************************)
\* strchr("123456", c) != NULL: the terminator of the literal is found too
strchr_123456(c) == c \in {49, 50, 51, 52, 53, 54, 0}

\* The decoder chosen: [is, rd]; is = "none" when the magic cannot be read.
bm_detect(rd0) ==
    LET start == rd_ftell(rd0)
        r == rd_fread(rd0, 4, 1)
        magic == r.data
        tga == is_tga_file(rd_fseek(r.rd, start, SEEK_SET).rd)
        found(is, rd) == [is |-> is, rd |-> rd_fseek(rd, start, SEEK_SET).rd]
    IN IF r.n # 1 THEN [is |-> "none", rd |-> r.rd]
       ELSE IF SubSeq(magic, 1, 2) = <<66, 77>> THEN found("bmp", r.rd)
       ELSE IF SubSeq(magic, 1, 3) = <<71, 73, 70>> THEN found("gif", r.rd)
       ELSE IF magic[1] = 255 /\ magic[2] = 216 THEN found("jpg", r.rd)
       ELSE IF magic[1] = 10 THEN found("pcx", r.rd)
       ELSE IF magic[1] = 137 /\ SubSeq(magic, 2, 4) = <<80, 78, 71>> THEN found("png", r.rd)
       ELSE IF magic[1] = 80 /\ strchr_123456(magic[2]) THEN found("pbm", r.rd)
       ELSE found(IF tga.rv # 0 THEN "tga" ELSE "unknown", tga.rd)

\* The dispatch on what bm_detect found (det); the result also names the
\* decoder that was chosen.
bm_dispatch(det, H, u) ==
    [decoder |-> det.is] @@
    (CASE det.is = "none" -> LoadFail(H, "couldn't determine filetype")
       [] det.is = "jpg" -> LoadFail(H, "JPEG support is not enabled")
       [] det.is = "png" -> LoadFail(H, "PNG support is not enabled")
       [] det.is = "gif" -> bm_load_gif_rd(det.rd, H, u)
       [] det.is = "pcx" -> bm_load_pcx_rd(det.rd, H)
       [] det.is = "bmp" -> bm_load_bmp_rd(det.rd, H, u)
       [] det.is = "tga" -> bm_load_tga_rd(det.rd, H, u)
       [] det.is = "pbm" -> bm_load_ppm_rd(det.rd, H, u)
       [] OTHER -> LoadFail(H, "unsupported file type"))

bm_load_rd(rd0, H, u) == bm_dispatch(bm_detect(rd0), H, u)

bm_load_fp(f, H, u) == bm_load_rd(make_file_reader(f), H, u)
bm_load_mem(buffer, H, u) == bm_load_rd(make_mem_reader(buffer), H, u)

(***************************************************************************)
(* The LZW specification: an input is drawn, encoded, and the encoder's    *)
(* buffer is handed to the decoder with its length.                        *)
(***************************************************************************)
\* Every sequence up to this length over the alphabet of the code size.
MaxShortLen == 3

\* A sequence in which no pair of neighbours repeats (a de Bruijn sequence
\* of order 2 over 0..3): every byte but the first costs one code.
DeBruijn == <<0, 0, 1, 1, 0, 2, 1, 2, 2, 0, 3, 1, 3, 2, 3, 3>>

LzwCodeSizes == {2, 3}

LzwInputs(cs) ==
    UNION {[1 .. n -> 0 .. 2^cs - 1] : n \in 0 .. MaxShortLen}
    \cup {SubSeq(DeBruijn, i, j) : i \in 1 .. 2, j \in 1 .. Len(DeBruijn)}

LzwIdle == lzw = [pc |-> "idle"]

LzwInit ==
    \E cs \in LzwCodeSizes : \E S \in LzwInputs(cs) :
        lzw = [pc |-> "start", bytes |-> S, code_size |-> cs]

LzwEncode ==
    /\ lzw.pc = "start"
    /\ lzw' = [pc |-> "encoded", bytes |-> lzw.bytes, code_size |-> lzw.code_size,
               enc |-> lzw_encode_bytes(lzw.bytes, lzw.code_size)]
    /\ UNCHANGED <<codec, stream, detect, pals, dither>>

\* decoded = lzw_decode_bytes(enc, out_len, code_size, &n): the bytes after
\* the first out_len of the encoder's buffer were never written.
LzwDecode ==
    /\ lzw.pc = "encoded"
    /\ \E t \in UninitBytes :
         lzw' = [pc |-> "decoded", bytes |-> lzw.bytes, code_size |-> lzw.code_size,
                 enc |-> lzw.enc, tail |-> t,
                 dec |-> lzw_decode_bytes([bytes |-> lzw.enc.buffer, tail |-> t],
                                          lzw.enc.out_len, lzw.code_size)]
    /\ UNCHANGED <<codec, stream, detect, pals, dither>>

CodecIdle == codec = [pc |-> "idle"]
StreamIdle == stream = [pc |-> "idle"]
DetectIdle == detect = [pc |-> "idle"]
PalsIdle == pals = [pc |-> "idle"]
DitherIdle == dither = [pc |-> "idle"]

InitLZW == LzwInit /\ CodecIdle /\ StreamIdle /\ DetectIdle /\ PalsIdle /\ DitherIdle
NextLZW == LzwEncode \/ LzwDecode
SpecLZW == InitLZW /\ [][NextLZW]_vars

\* C1: decoding what the encoder produced gives back the input, byte for
\* byte, for every input and code size.
C1_LzwRoundTrip ==
    lzw.pc = "decoded" => (lzw.dec.status = "ok" /\ lzw.dec.out = lzw.bytes)

\* C24: for every input and code size, the k-th code of the encoder is
\* written with the bit width the decoder uses to read its k-th code (the
\* clear codes and the final end code included): the two sequences of
\* widths are the same.
C24_SameWidths ==
    lzw.pc = "decoded" => lzw.dec.widths = lzw.enc.widths

(***************************************************************************)
(* The codec specification: a bitmap is drawn, saved in one of the formats *)
(* through the writer of bm_save_custom, and the bytes written are loaded   *)
(* with bm_load_fp and then with bm_load_mem.                              *)
(*                                                                         *)
(* The bitmaps are those of up to MaxW x MaxH pixels whose pixels repeat a *)
(* pattern of PatLen colours drawn from CodecColors, and the bitmaps whose *)
(* pixels are all different, every other one half transparent (RampColor). *)
(***************************************************************************)
MaxW == 4
MaxH == 3
PatLen == 3

\* 0xFF102030, 0xFFC0B0A0 and the half transparent 0x80FFFF00
CodecColors == <<-15720400, -4149088, -2130706688>>

RampColor(k) == RGBA((37 * k) % 256, (k * k) % 256, 255 - k, IF k % 2 = 0 THEN 128 ELSE 255)

CodecPixels(n) ==
    {[k \in 1 .. n |-> CodecColors[p[((k - 1) % PatLen) + 1]]] :
        p \in [1 .. PatLen -> 1 .. Len(CodecColors)]}
    \cup {[k \in 1 .. n |-> RampColor(k)]}

CodecBitmaps ==
    UNION {{[w |-> w, h |-> h, data |-> d, color |-> -1, palette |-> NULL] :
               d \in CodecPixels(w * h)} : w \in 1 .. MaxW, h \in 1 .. MaxH}

CodecInit ==
    \E b \in CodecBitmaps : codec = [pc |-> "start", bmp |-> b, heap |-> NewHeap]

\* After a save: s is what the call returned, the bitmap as the call left it
\* (after), the heap, the result and the bytes the writer accepted.
Saved(fmt, s) ==
    [pc |-> "saved", fmt |-> fmt, bmp |-> codec.bmp, after |-> s.b, heap |-> s.heap,
     ret |-> s.ret, err |-> s.err, file |-> s.w.out]

\* bm_save_bmp and bm_save_tga touch neither the bitmap nor the heap
Untouched(s) == [b |-> codec.bmp, heap |-> codec.heap] @@ s

SaveBmp ==
    /\ codec.pc = "start"
    /\ codec' = Saved("bmp", Untouched(bm_save_bmp(codec.bmp, NewWriter(0))))
    /\ UNCHANGED <<lzw, stream, detect, pals, dither>>

SaveGif ==
    /\ codec.pc = "start"
    /\ codec' = Saved("gif", bm_save_gif(codec.heap, codec.bmp, NewWriter(0)))
    /\ UNCHANGED <<lzw, stream, detect, pals, dither>>

SavePcx ==
    /\ codec.pc = "start"
    /\ codec' = Saved("pcx", bm_save_pcx(codec.heap, codec.bmp, NewWriter(0)))
    /\ UNCHANGED <<lzw, stream, detect, pals, dither>>

SaveTga ==
    /\ codec.pc = "start"
    /\ codec' = Saved("tga", Untouched(bm_save_tga(codec.bmp, NewWriter(0))))
    /\ UNCHANGED <<lzw, stream, detect, pals, dither>>

\* bm_load_fp on a file that holds the bytes written
LoadFp ==
    /\ codec.pc = "saved"
    /\ codec.ret = 1
    /\ \E u \in UninitBytes :
         codec' = [pc |-> "loaded_fp", fmt |-> codec.fmt, bmp |-> codec.bmp,
                   after |-> codec.after, file |-> codec.file,
                   fp |-> bm_load_fp(codec.file, codec.heap, u)]
    /\ UNCHANGED <<lzw, stream, detect, pals, dither>>

\* bm_load_mem on a buffer that holds the same bytes
LoadMem ==
    /\ codec.pc = "loaded_fp"
    /\ \E u \in UninitBytes :
         codec' = [pc |-> "loaded", fmt |-> codec.fmt, bmp |-> codec.bmp,
                   after |-> codec.after, file |-> codec.file, fp |-> codec.fp,
                   mem |-> bm_load_mem(codec.file, codec.fp.heap, u)]
    /\ UNCHANGED <<lzw, stream, detect, pals, dither>>

InitCodec == CodecInit /\ LzwIdle /\ StreamIdle /\ DetectIdle /\ PalsIdle /\ DitherIdle
NextCodec == SaveBmp \/ SaveGif \/ SavePcx \/ SaveTga \/ LoadFp \/ LoadMem
SpecCodec == InitCodec /\ [][NextCodec]_vars

\* The loaded canvas has the size of b and, pixel by pixel, its RGB.
SameRGB(b, l) ==
    /\ l.status = "ok"
    /\ l.b.w = b.w /\ l.b.h = b.h
    /\ \A k \in 1 .. b.w * b.h : Rgb24(l.b.data[k]) = Rgb24(b.data[k])

LoadedFp(fmt) == codec.pc \in {"loaded_fp", "loaded"} /\ codec.fmt = fmt

(***************************************************************************)
(* Round trips through the codecs.                                         *)
(***************************************************************************)
\* C2: a bitmap saved with bm_save_bmp and loaded from the bytes written
\* comes back with the same width and height, the R, G and B bytes of every
\* pixel, and alpha 0xFF, whatever the padding of its rows.
C2_BmpRoundTrip ==
    LoadedFp("bmp") =>
        /\ codec.fp.decoder = "bmp"
        /\ SameRGB(codec.bmp, codec.fp)
        /\ \A k \in 1 .. Len(codec.fp.b.data) : GetA(codec.fp.b.data[k]) = 255

\* a 3 x 2 bitmap (rows padded by 3 bytes) with a pixel that is not opaque
\* and two rows that differ was saved and loaded
C2_Witness ==
    /\ LoadedFp("bmp") /\ codec.fp.status = "ok"
    /\ codec.bmp.w = 3 /\ codec.bmp.h = 2
    /\ \E k \in 1 .. 6 : GetA(codec.bmp.data[k]) # 255
    /\ SubSeq(codec.bmp.data, 1, 3) # SubSeq(codec.bmp.data, 4, 6)

\* C3: a bitmap without a palette (it has at most 256 colours) saved as GIF
\* or as PCX and loaded from the bytes written comes back with the same
\* dimensions and the RGB bytes of every pixel.
C3_PaletteRoundTrip ==
    (LoadedFp("gif") \/ LoadedFp("pcx")) /\ codec.bmp.palette = NULL =>
        /\ codec.fp.decoder = codec.fmt
        /\ SameRGB(codec.bmp, codec.fp)

\* a 4 x 3 bitmap of twelve colours went through GIF
C3_Witness ==
    /\ LoadedFp("gif") /\ codec.fp.status = "ok"
    /\ codec.bmp.palette = NULL
    /\ codec.bmp.w = 4 /\ codec.bmp.h = 3
    /\ Cardinality({codec.bmp.data[k] : k \in 1 .. 12}) = 12

\* C4: a bitmap saved with bm_save_tga and loaded from the bytes written
\* comes back with the same dimensions and the RGB bytes at every (x, y).
C4_TgaRoundTrip ==
    LoadedFp("tga") =>
        /\ codec.fp.decoder = "tga"
        /\ SameRGB(codec.bmp, codec.fp)

\* a bitmap of two rows whose first row starts with a run and ends with a
\* pixel of another colour (a run packet and a raw packet) went through TGA
C4_Witness ==
    /\ LoadedFp("tga") /\ codec.fp.status = "ok"
    /\ codec.bmp.w = 3 /\ codec.bmp.h = 2
    /\ codec.bmp.data[1] = codec.bmp.data[2]
    /\ codec.bmp.data[2] # codec.bmp.data[3]

\* C8: bm_load_mem on a buffer gives the outcome of bm_load_fp on a file
\* with the same bytes: both fail with the same error or both return the same
\* canvas.
C8_MemLikeFile ==
    codec.pc = "loaded" =>
        /\ codec.mem.status = codec.fp.status
        /\ codec.mem.err = codec.fp.err
        /\ codec.mem.decoder = codec.fp.decoder
        /\ IsNull(codec.mem.b) = IsNull(codec.fp.b)
        /\ ~IsNull(codec.fp.b) =>
              /\ codec.mem.b.w = codec.fp.b.w /\ codec.mem.b.h = codec.fp.b.h
              /\ codec.mem.b.data = codec.fp.b.data

\* the entries of the palette the save used and of the palette of the
\* loaded bitmap
SavedEntries == codec.fp.heap.objs[codec.after.palette].colors
LoadedEntries == codec.fp.heap.objs[codec.fp.b.palette].colors

\* C12 as stated: the palette of the loaded bitmap has the number of entries
\* and the colours of the palette used for saving.
C12_PaletteSame ==
    (LoadedFp("gif") \/ LoadedFp("pcx")) /\ codec.fp.status = "ok" =>
        /\ codec.fp.b.palette # NULL
        /\ Len(LoadedEntries) = Len(SavedEntries)
        /\ \A k \in 1 .. Len(SavedEntries) : LoadedEntries[k] = Rgb24(SavedEntries[k])

\* C12, amended: the palette of the loaded bitmap has as many entries as the
\* colour table of the file (8, 16, .. 256 for GIF, 256 for PCX); it starts
\* with the colours of the palette used for saving, in their order, and the
\* entries after them are black.
C12_PalettePadded ==
    (LoadedFp("gif") \/ LoadedFp("pcx")) /\ codec.fp.status = "ok" =>
        /\ codec.fp.b.palette # NULL
        /\ Len(LoadedEntries) = IF codec.fmt = "gif"
                                THEN gif_table_size(Len(SavedEntries)).sgct ELSE 256
        /\ \A k \in 1 .. Len(LoadedEntries) :
              LoadedEntries[k] = IF k <= Len(SavedEntries) THEN Rgb24(SavedEntries[k]) ELSE 0

\* a bitmap of two colours went through GIF: the palette made for saving has
\* two entries, the palette loaded has eight
C12_Witness ==
    /\ LoadedFp("gif") /\ codec.fp.status = "ok"
    /\ Cardinality({codec.bmp.data[k] : k \in 1 .. Len(codec.bmp.data)}) = 2
    /\ Len(SavedEntries) = 2
    /\ Len(LoadedEntries) = 8
    /\ LoadedEntries[1] # LoadedEntries[2]

(***************************************************************************)
(* The stream specification: a well-formed GIF stream or a well-formed     *)
(* three-plane PCX file is drawn and given to its decoder.                 *)
(*                                                                         *)
(* The GIF streams have a 2 x 1 canvas, a global colour table of two       *)
(* entries and up to MaxBlocks blocks, each a graphic control extension, a *)
(* comment, an application extension, a plain text extension or an image   *)
(* that covers the canvas; the GIF87a streams hold images only.  The PCX   *)
(* files are those of up to MaxW x MaxH pixels whose plane bytes follow    *)
(* one of the PcxSeeds.                                                    *)
(***************************************************************************)
MaxBlocks == 3

GifBlockKinds == {"gce", "comment", "application", "text", "image"}

\* the pixels of the images: the two palette indices
GifImagePixels == <<1, 0>>

GifImageData ==
    LET enc == lzw_encode_bytes(GifImagePixels, 2)
    IN <<2>> \o gif_sub_blocks(enc.buffer, enc.out_len) \o <<0>>

GifBlock(kind) ==
    CASE kind = "gce" -> <<33, 249, 4, 0, 0, 0, 0, 0>>
      [] kind = "comment" -> <<33, 254, 1, 65, 0>>
      [] kind = "application" ->
            <<33, 255, 11, 78, 69, 84, 83, 67, 65, 80, 69, 50, 46, 48, 3, 1, 0, 0, 0>>
      [] kind = "text" ->
            <<33, 1, 12>> \o LE16(0) \o LE16(0) \o LE16(2) \o LE16(1) \o <<1, 1, 1, 0>>
            \o <<1, 65, 0>>
      [] kind = "image" ->
            <<44>> \o LE16(0) \o LE16(0) \o LE16(2) \o LE16(1) \o <<0>> \o GifImageData

\* Header, LSD (2 x 1, a global colour table of 2 entries), the table, the
\* blocks and the trailer
GifStream(version, kinds) ==
    <<71, 73, 70, 56, version, 97>> \o LE16(2) \o LE16(1) \o <<128, 0, 0>>
    \o <<16, 32, 48, 192, 176, 160>>
    \o Flatten([k \in 1 .. Len(kinds) |-> GifBlock(kinds[k])]) \o <<59>>

GifBlockSeqs == UNION {[1 .. n -> GifBlockKinds] : n \in 0 .. MaxBlocks}

GifStreams ==
    {[kind |-> "gif", blocks |-> ks, file |-> GifStream(57, ks)] : ks \in GifBlockSeqs}
    \cup {[kind |-> "gif", blocks |-> ks, file |-> GifStream(55, ks)] :
             ks \in UNION {[1 .. n -> {"image"}] : n \in 0 .. MaxBlocks}}

PcxSeeds == {1, 100, 190}
PcxMaxW == 4
PcxMaxH == 3

\* the byte of plane p at (x, y)
PcxPlaneByte(seed, x, y, p) == (seed + 40 * p + 7 * x + 3 * y) % 256

\* a byte as the RLE of PCX stores it
PcxByte(v) == IF v >= 192 THEN <<193, v>> ELSE <<v>>

\* Version 5, RLE, 8 bits, 3 planes; bytes_per_line is even, the padding
\* byte of a row of odd width is zero.
Pcx3File(seed, w, h) ==
    LET bytes_per_line == IF w % 2 = 1 THEN w + 1 ELSE w
        line(y, p) == Flatten([x1 \in 1 .. bytes_per_line |->
                          IF x1 <= w THEN PcxByte(PcxPlaneByte(seed, x1 - 1, y, p)) ELSE <<0>>])
    IN pcx_header(5, 1, 8, 0, 0, w - 1, h - 1, h, w, 3, bytes_per_line, 1)
       \o Flatten([k \in 1 .. 3 * h |-> line((k - 1) \div 3, (k - 1) % 3)])

Pcx3Files ==
    {[kind |-> "pcx", w |-> w, h |-> h, seed |-> seed, file |-> Pcx3File(seed, w, h)] :
        seed \in PcxSeeds, w \in 1 .. PcxMaxW, h \in 1 .. PcxMaxH}

StreamInit == \E s \in GifStreams \cup Pcx3Files : stream = [pc |-> "start", in |-> s]

\* bm_load_gif_rd on a file that holds the stream
LoadGifStream ==
    /\ stream.pc = "start"
    /\ stream.in.kind = "gif"
    /\ \E u \in UninitBytes :
         stream' = [pc |-> "loaded", in |-> stream.in,
                    res |-> bm_load_gif_rd(make_file_reader(stream.in.file), NewHeap, u)]
    /\ UNCHANGED <<lzw, codec, detect, pals, dither>>

\* bm_load_pcx_rd on a file that holds the three planes
LoadPcxPlanes ==
    /\ stream.pc = "start"
    /\ stream.in.kind = "pcx"
    /\ stream' = [pc |-> "loaded", in |-> stream.in,
                  res |-> bm_load_pcx_rd(make_file_reader(stream.in.file), NewHeap)]
    /\ UNCHANGED <<lzw, codec, detect, pals, dither>>

InitStream == StreamInit /\ LzwIdle /\ CodecIdle /\ DetectIdle /\ PalsIdle /\ DitherIdle
NextStream == LoadGifStream \/ LoadPcxPlanes
SpecStream == InitStream /\ [][NextStream]_vars

\* C6: a well-formed three-plane PCX file loads as the bitmap whose pixel
\* (x, y) has the bytes of planes 0, 1 and 2 of row y as R, G and B, and the
\* load neither attaches nor releases a palette.
C6_PcxThreePlanes ==
    stream.pc = "loaded" /\ stream.in.kind = "pcx" =>
        /\ stream.res.status = "ok"
        /\ stream.res.b.w = stream.in.w /\ stream.res.b.h = stream.in.h
        /\ \A x \in 0 .. stream.in.w - 1 : \A y \in 0 .. stream.in.h - 1 :
              LET c == BM_GET(stream.res.b, x, y) IN
              /\ GetR(c) = PcxPlaneByte(stream.in.seed, x, y, 0)
              /\ GetG(c) = PcxPlaneByte(stream.in.seed, x, y, 1)
              /\ GetB(c) = PcxPlaneByte(stream.in.seed, x, y, 2)
        /\ stream.res.b.palette = NULL
        /\ stream.res.heap = NewHeap

\* C7: bm_load_gif_rd returns the canvas for every stream of well-formed
\* extensions and images that ends with the trailer, also when extensions
\* follow the last image and when there is no image.
C7_GifBlockLoop ==
    stream.pc = "loaded" /\ stream.in.kind = "gif" =>
        /\ stream.res.status = "ok"
        /\ stream.res.b.w = 2 /\ stream.res.b.h = 1

\* C17: when bm_load_gif_rd returns, every buffer and palette allocated during
\* the load has been released, and the canvas too when the load failed: only
\* the returned bitmap and the palette attached to it stay allocated.
C17_GifReleasesAll ==
    stream.pc = "loaded" /\ stream.in.kind = "gif" /\ stream.res.status \in {"ok", "null"} =>
        /\ stream.res.heap.held = IF stream.res.status = "ok" THEN 1 ELSE 0
        /\ \A p \in 1 .. Len(stream.res.heap.objs) :
              ~stream.res.heap.objs[p].freed =>
                  stream.res.status = "ok" /\ p = stream.res.b.palette

(***************************************************************************)
(* The detection specification: a buffer is drawn and loaded with          *)
(* bm_load_fp and with bm_load_mem.  Its first four bytes are drawn from   *)
(* the bytes the magic numbers are made of; the bytes that follow complete *)
(* the header of a 1 x 1 TGA image of 24 bits, the image ID and one pixel. *)
(***************************************************************************)
\* 'B', 'G', 0xFF, 0x0A, 0x89, 'P' and 0
MagicFirst == {66, 71, 255, 10, 137, 80, 0}
\* 'M', 'I', 0xD8, 'P', '1', '6', '7', '0', 0 and 1
MagicSecond == {77, 73, 216, 80, 49, 54, 55, 48, 0, 1}
\* 'F', 'N' and 2 (the TGA image type of true colour)
MagicThird == {70, 78, 2}
\* 'G' and 0
MagicFourth == {71, 0}

MagicBuffer(m) ==
    m \o <<0>> \o LE16(0) \o <<0>> \o LE16(0) \o LE16(0) \o LE16(1) \o LE16(1) \o <<24, 0>>
    \o Zeroes(m[1]) \o <<3, 2, 1>>

MagicBuffers ==
    {MagicBuffer(<<a, b, c, d>>) :
        a \in MagicFirst, b \in MagicSecond, c \in MagicThird, d \in MagicFourth}
    \cup {<<>>, <<66, 77, 0>>}

DetectInit == \E buf \in MagicBuffers : detect = [pc |-> "start", buf |-> buf]

\* bm_load_fp on a file that holds the buffer
DetectFp ==
    /\ detect.pc = "start"
    /\ \E u \in UninitBytes :
         detect' = [pc |-> "file", buf |-> detect.buf,
                    fp |-> bm_load_fp(detect.buf, NewHeap, u)]
    /\ UNCHANGED <<lzw, codec, stream, pals, dither>>

\* bm_load_mem on the buffer
DetectMem ==
    /\ detect.pc = "file"
    /\ \E u \in UninitBytes :
         detect' = [pc |-> "done", buf |-> detect.buf, fp |-> detect.fp,
                    mem |-> bm_load_mem(detect.buf, NewHeap, u)]
    /\ UNCHANGED <<lzw, codec, stream, pals, dither>>

InitDetect == DetectInit /\ LzwIdle /\ CodecIdle /\ StreamIdle /\ PalsIdle /\ DitherIdle
NextDetect == DetectFp \/ DetectMem
SpecDetect == InitDetect /\ [][NextDetect]_vars

\* The decoder that the magic numbers name for the first four bytes m of buf;
\* every other prefix is for the TGA heuristic on the buffer from its start.
NamedDecoder(buf) ==
    LET m == SubSeq(buf, 1, 4) IN
    IF SubSeq(m, 1, 2) = <<66, 77>> THEN "bmp"
    ELSE IF SubSeq(m, 1, 3) = <<71, 73, 70>> THEN "gif"
    ELSE IF SubSeq(m, 1, 2) = <<255, 216>> THEN "jpg"
    ELSE IF m = <<137, 80, 78, 71>> THEN "png"
    ELSE IF m[1] = 10 THEN "pcx"
    ELSE IF m[1] = 80 /\ m[2] \in 49 .. 54 THEN "pbm"
    ELSE IF is_tga_file(make_file_reader(buf)).rv # 0 THEN "tga"
    ELSE "unknown"

\* C9: bm_load_fp and bm_load_mem give a buffer to the decoder its first four
\* bytes name, every other prefix to the TGA heuristic, and report the buffer
\* as unsupported when the heuristic rejects it.
C9_DecoderByMagic ==
    detect.pc = "done" /\ Len(detect.buf) >= 4 =>
        /\ detect.fp.decoder = NamedDecoder(detect.buf)
        /\ detect.mem.decoder = NamedDecoder(detect.buf)
        /\ NamedDecoder(detect.buf) = "unknown" =>
              /\ detect.fp.status = "null" /\ detect.fp.err = "unsupported file type"
              /\ detect.mem.status = "null" /\ detect.mem.err = "unsupported file type"

(***************************************************************************)
(* The palette specification: a caller creates, retains and releases       *)
(* palettes, creates, copies and frees bitmaps and attaches palettes to    *)
(* them.  held[p] counts the references to palette p the caller holds; it  *)
(* releases only those.  There are up to MaxPalettes palettes, MaxBitmaps  *)
(* bitmaps at a time and MaxHeld references held to one palette.           *)
(***************************************************************************)
MaxPalettes == 2
MaxBitmaps == 2
MaxHeld == 2

PalsInit ==
    pals = [pc |-> "run", heap |-> NewHeap, held |-> <<>>,
            bmps |-> [i \in 1 .. MaxBitmaps |-> NoBitmap]]

Palettes == 1 .. Len(pals.heap.objs)

PalCreate ==
    /\ pals.pc = "run"
    /\ Len(pals.heap.objs) < MaxPalettes
    /\ LET cr == bm_palette_create(pals.heap, 2)
       IN pals' = [pals EXCEPT !.heap = cr.heap, !.held = Append(@, 1)]
    /\ UNCHANGED <<lzw, codec, stream, detect, dither>>

PalRetain ==
    /\ pals.pc = "run"
    /\ \E p \in Palettes :
         /\ Live(pals.heap, p)
         /\ pals.held[p] < MaxHeld
         /\ pals' = [pals EXCEPT !.heap = bm_palette_retain(pals.heap, p),
                                 !.held[p] = @ + 1]
    /\ UNCHANGED <<lzw, codec, stream, detect, dither>>

PalRelease ==
    /\ pals.pc = "run"
    /\ \E p \in Palettes :
         /\ pals.held[p] > 0
         /\ pals' = [pals EXCEPT !.heap = bm_palette_release(pals.heap, p),
                                 !.held[p] = @ - 1]
    /\ UNCHANGED <<lzw, codec, stream, detect, dither>>

BmCreate ==
    /\ pals.pc = "run"
    /\ \E i \in 1 .. MaxBitmaps :
         /\ IsNull(pals.bmps[i])
         /\ pals' = [pals EXCEPT !.bmps[i] = bm_create(1, 1)]
    /\ UNCHANGED <<lzw, codec, stream, detect, dither>>

\* bm_set_palette with NULL or with a palette that is alive: one the caller
\* holds, or one taken from a bitmap with bm_get_palette
BmSetPalette ==
    /\ pals.pc = "run"
    /\ \E i \in 1 .. MaxBitmaps : \E p \in {NULL} \cup {q \in Palettes : Live(pals.heap, q)} :
         /\ ~IsNull(pals.bmps[i])
         /\ LET sp == bm_set_palette(pals.heap, pals.bmps[i], p)
            IN pals' = [pals EXCEPT !.heap = sp.heap, !.bmps[i] = sp.b]
    /\ UNCHANGED <<lzw, codec, stream, detect, dither>>

BmCopy ==
    /\ pals.pc = "run"
    /\ \E i, j \in 1 .. MaxBitmaps :
         /\ ~IsNull(pals.bmps[i])
         /\ IsNull(pals.bmps[j])
         /\ LET cp == bm_copy(pals.heap, pals.bmps[i])
            IN pals' = [pals EXCEPT !.heap = cp.heap, !.bmps[j] = cp.b]
    /\ UNCHANGED <<lzw, codec, stream, detect, dither>>

BmFree ==
    /\ pals.pc = "run"
    /\ \E i \in 1 .. MaxBitmaps :
         /\ ~IsNull(pals.bmps[i])
         /\ pals' = [pals EXCEPT !.heap = bm_free(pals.heap, pals.bmps[i]),
                                 !.bmps[i] = NoBitmap]
    /\ UNCHANGED <<lzw, codec, stream, detect, dither>>

InitPalette == PalsInit /\ LzwIdle /\ CodecIdle /\ StreamIdle /\ DetectIdle /\ DitherIdle
NextPalette ==
    PalCreate \/ PalRetain \/ PalRelease \/ BmCreate \/ BmSetPalette \/ BmCopy \/ BmFree
SpecPalette == InitPalette /\ [][NextPalette]_vars

\* the number of bitmaps palette p is attached to
Attached(p) ==
    Cardinality({i \in 1 .. MaxBitmaps : ~IsNull(pals.bmps[i]) /\ pals.bmps[i].palette = p})

\* C5: the ref_count of a live palette is the number of references the caller
\* holds plus the number of bitmaps it is attached to; a palette is destroyed
\* exactly when that number is 0, so never while a bitmap points to it; and
\* no assert() fails.
C5_RefCount ==
    pals.pc = "run" =>
        /\ pals.heap.fault = "none"
        /\ \A p \in Palettes :
              /\ pals.heap.objs[p].freed <=> pals.held[p] + Attached(p) = 0
              /\ ~pals.heap.objs[p].freed =>
                    pals.heap.objs[p].ref_count = pals.held[p] + Attached(p)

\* one palette was destroyed; the other is kept alive by the two bitmaps it
\* is attached to after the caller released its own reference
C5_Witness ==
    /\ pals.pc = "run"
    /\ \E p, q \in Palettes :
         /\ pals.heap.objs[p].freed
         /\ ~pals.heap.objs[q].freed
         /\ pals.held[q] = 0
         /\ Attached(q) = 2
         /\ pals.heap.objs[q].ref_count = 2

(***************************************************************************)
(* The dithering specification: one of the CodecBitmaps and one of the     *)
(* DitherPalettes are drawn and the bitmap is reduced to the palette with  *)
(* one of the five functions.                                              *)
(***************************************************************************)
\* black and white; one colour; red, green, blue and 0xFFC0B0A0 (an entry
\* with alpha bits)
DitherPalettes ==
    {<<0, 16777215>>, <<1056816>>, <<16711680, 65280, 255, -4149088>>}

DitherInit ==
    \E b \in CodecBitmaps, cols \in DitherPalettes :
        LET cr == bm_palette_create(NewHeap, Len(cols))
        IN dither = [pc |-> "start", b |-> b, pal |-> cr.pal,
                     heap |-> [cr.heap EXCEPT !.objs[cr.pal].colors = cols]]

Reduced(alg, after) ==
    [pc |-> "reduced", alg |-> alg, b |-> dither.b, pal |-> dither.pal,
     heap |-> dither.heap, after |-> after]

ReduceFloydSteinberg ==
    /\ dither.pc = "start"
    /\ dither' = Reduced("fs", bm_reduce_palette(dither.heap, dither.b, dither.pal))
    /\ UNCHANGED <<lzw, codec, stream, detect, pals>>

ReduceAtkinson ==
    /\ dither.pc = "start"
    /\ dither' = Reduced("atk", bm_reduce_palette_atk(dither.heap, dither.b, dither.pal))
    /\ UNCHANGED <<lzw, codec, stream, detect, pals>>

ReduceOD4 ==
    /\ dither.pc = "start"
    /\ dither' = Reduced("od4", bm_reduce_palette_OD4(dither.heap, dither.b, dither.pal))
    /\ UNCHANGED <<lzw, codec, stream, detect, pals>>

ReduceOD8 ==
    /\ dither.pc = "start"
    /\ dither' = Reduced("od8", bm_reduce_palette_OD8(dither.heap, dither.b, dither.pal))
    /\ UNCHANGED <<lzw, codec, stream, detect, pals>>

ReduceNearest ==
    /\ dither.pc = "start"
    /\ dither' = Reduced("nearest",
                         bm_reduce_palette_nearest(dither.heap, dither.b, dither.pal))
    /\ UNCHANGED <<lzw, codec, stream, detect, pals>>

InitDither == DitherInit /\ LzwIdle /\ CodecIdle /\ StreamIdle /\ DetectIdle /\ PalsIdle
NextDither ==
    ReduceFloydSteinberg \/ ReduceAtkinson \/ ReduceOD4 \/ ReduceOD8 \/ ReduceNearest
SpecDither == InitDither /\ [][NextDither]_vars

\* C10: after any of the five reductions every pixel of the bitmap equals an
\* entry of the palette.
C10_PixelsInPalette ==
    dither.pc = "reduced" =>
        /\ dither.after.w = dither.b.w /\ dither.after.h = dither.b.h
        /\ \A k \in 1 .. dither.b.w * dither.b.h :
              \E i \in 1 .. Len(dither.heap.objs[dither.pal].colors) :
                  dither.after.data[k] = dither.heap.objs[dither.pal].colors[i]

\* Floyd-Steinberg on a bitmap of several rows where the diffused error made
\* a pixel take another entry than the nearest to its own colour
C10_Witness ==
    /\ dither.pc = "reduced" /\ dither.alg = "fs"
    /\ dither.b.w > 1 /\ dither.b.h > 1
    /\ Len(dither.heap.objs[dither.pal].colors) > 1
    /\ dither.after # bm_reduce_palette_nearest(dither.heap, dither.b, dither.pal)

(***************************************************************************)
(* The lookup specification: a caller creates a palette of up to           *)
(* MaxEntries entries, fills it with bm_palette_set and bm_palette_add,    *)
(* and looks an entry's own colour up with bm_palette_nearest_index.       *)
(* The colours are black, black with an alpha byte, the blue next to       *)
(* black, a grey and white.                                                *)
(***************************************************************************)
MaxEntries == 3

NearColors == {0, -16777216, 1, 8421504, 16777215}

NearInit == pals = [pc |-> "new"]

NearCreate ==
    /\ pals.pc = "new"
    /\ \E n \in 0 .. MaxEntries :
         LET cr == bm_palette_create(NewHeap, n)
         IN pals' = [pc |-> "edit", heap |-> cr.heap, pal |-> cr.pal]
    /\ UNCHANGED <<lzw, codec, stream, detect, dither>>

NearAdd ==
    /\ pals.pc = "edit"
    /\ bm_palette_count(pals.heap, pals.pal) < MaxEntries
    /\ \E c \in NearColors :
         pals' = [pals EXCEPT !.heap = bm_palette_add(pals.heap, pals.pal, c)]
    /\ UNCHANGED <<lzw, codec, stream, detect, dither>>

NearSet ==
    /\ pals.pc = "edit"
    /\ \E i \in 0 .. bm_palette_count(pals.heap, pals.pal) - 1 : \E c \in NearColors :
         pals' = [pals EXCEPT !.heap = bm_palette_set(pals.heap, pals.pal, i, c)]
    /\ UNCHANGED <<lzw, codec, stream, detect, dither>>

\* index = bm_palette_nearest_index(P, bm_palette_get(P, i))
NearLookup ==
    /\ pals.pc = "edit"
    /\ \E i \in 0 .. bm_palette_count(pals.heap, pals.pal) - 1 :
         pals' = [pc |-> "found", heap |-> pals.heap, pal |-> pals.pal, i |-> i,
                  index |-> bm_palette_nearest_index(pals.heap, pals.pal,
                                bm_palette_get(pals.heap, pals.pal, i))]
    /\ UNCHANGED <<lzw, codec, stream, detect, dither>>

InitNearest == NearInit /\ LzwIdle /\ CodecIdle /\ StreamIdle /\ DetectIdle /\ DitherIdle
NextNearest == NearCreate \/ NearAdd \/ NearSet \/ NearLookup
SpecNearest == InitNearest /\ [][NextNearest]_vars

NearEntries == pals.heap.objs[pals.pal].colors

\* C11 as stated: looking up the colour of entry i gives i.
C11_NearestIsSelf == pals.pc = "found" => pals.index = pals.i

\* C11, amended: looking up the colour of entry i gives the lowest index
\* whose entry has the red, green and blue of entry i; that is i itself
\* exactly when no entry before i has them.
C11_NearestIsFirst ==
    pals.pc = "found" =>
        /\ pals.index <= pals.i
        /\ Rgb24(NearEntries[pals.index + 1]) = Rgb24(NearEntries[pals.i + 1])
        /\ \A j \in 0 .. pals.index - 1 :
              Rgb24(NearEntries[j + 1]) # Rgb24(NearEntries[pals.i + 1])

\* the last of three different entries, two of them next to each other in
\* the blue channel, is found at its own index
C11_Witness ==
    /\ pals.pc = "found"
    /\ Len(NearEntries) = 3
    /\ pals.i = 2 /\ pals.index = 2
    /\ Rgb24(NearEntries[2]) = 0 /\ Rgb24(NearEntries[3]) = 1

\* C18: every entry a palette stores is a 24-bit colour: its alpha byte is 0
\* whatever colour value bm_palette_add or bm_palette_set was given.
C18_EntriesAre24Bit ==
    pals.pc \in {"edit", "found"} =>
        \A k \in 1 .. Len(NearEntries) : GetA(NearEntries[k]) = 0

(***************************************************************************)
(* The writer specification: a bitmap of up to MaxWriteW x 1 pixels is     *)
(* saved through a write callback that returns 0 on one of its first       *)
(* MaxFailCall calls and 1 on the others.                                  *)
(***************************************************************************)
MaxWriteW == 2
MaxFailCall == 8

WriterInit ==
    \E b \in {c \in CodecBitmaps : c.w <= MaxWriteW /\ c.h = 1} : \E k \in 1 .. MaxFailCall :
        codec = [pc |-> "write", bmp |-> b, heap |-> NewHeap, fail |-> k]

\* what the call returned, and whether the callback returned 0 during it
Written(fmt, s) ==
    [pc |-> "written", fmt |-> fmt, bmp |-> codec.bmp, fail |-> codec.fail, ret |-> s.ret,
     err |-> s.err, calls |-> s.w.calls, refused |-> s.w.calls >= codec.fail]

WriteBmp ==
    /\ codec.pc = "write"
    /\ codec' = Written("bmp", bm_save_bmp(codec.bmp, NewWriter(codec.fail)))
    /\ UNCHANGED <<lzw, stream, detect, pals, dither>>

WriteGif ==
    /\ codec.pc = "write"
    /\ codec' = Written("gif", bm_save_gif(codec.heap, codec.bmp, NewWriter(codec.fail)))
    /\ UNCHANGED <<lzw, stream, detect, pals, dither>>

WritePcx ==
    /\ codec.pc = "write"
    /\ codec' = Written("pcx", bm_save_pcx(codec.heap, codec.bmp, NewWriter(codec.fail)))
    /\ UNCHANGED <<lzw, stream, detect, pals, dither>>

WriteTga ==
    /\ codec.pc = "write"
    /\ codec' = Written("tga", bm_save_tga(codec.bmp, NewWriter(codec.fail)))
    /\ UNCHANGED <<lzw, stream, detect, pals, dither>>

InitWriter == WriterInit /\ LzwIdle /\ StreamIdle /\ DetectIdle /\ PalsIdle /\ DitherIdle
NextWriter == WriteBmp \/ WriteGif \/ WritePcx \/ WriteTga
SpecWriter == InitWriter /\ [][NextWriter]_vars

\* C13: a save during which the write callback returned 0 returns 0.
C13_WriteFailureReturnsZero ==
    codec.pc = "written" /\ codec.refused => codec.ret = 0

(***************************************************************************)
(* The truncation specification: the file one of the save functions writes *)
(* for a bitmap of up to MaxWriteW x 1 pixels loses its last 1 .. MaxCut   *)
(* bytes and is loaded with bm_load_fp or with bm_load_mem.                *)
(***************************************************************************)
MaxCut == 8

SavedFile(fmt, b) ==
    CASE fmt = "bmp" -> bm_save_bmp(b, NewWriter(0)).w.out
      [] fmt = "gif" -> bm_save_gif(NewHeap, b, NewWriter(0)).w.out
      [] fmt = "pcx" -> bm_save_pcx(NewHeap, b, NewWriter(0)).w.out
      [] fmt = "tga" -> bm_save_tga(b, NewWriter(0)).w.out

CutFile(file, k) == SubSeq(file, 1, Len(file) - k)

CutInit ==
    \E b \in {c \in CodecBitmaps : c.w <= MaxWriteW /\ c.h = 1} :
    \E fmt \in {"bmp", "gif", "pcx", "tga"} : \E k \in 1 .. MaxCut :
        codec = [pc |-> "cut", fmt |-> fmt, cut |-> k, file |-> CutFile(SavedFile(fmt, b), k)]

CutLoaded(by, res) ==
    [pc |-> "cut_loaded", by |-> by, fmt |-> codec.fmt, cut |-> codec.cut,
     file |-> codec.file, res |-> res]

CutLoadFp ==
    /\ codec.pc = "cut"
    /\ \E u \in UninitBytes : codec' = CutLoaded("fp", bm_load_fp(codec.file, NewHeap, u))
    /\ UNCHANGED <<lzw, stream, detect, pals, dither>>

CutLoadMem ==
    /\ codec.pc = "cut"
    /\ \E u \in UninitBytes : codec' = CutLoaded("mem", bm_load_mem(codec.file, NewHeap, u))
    /\ UNCHANGED <<lzw, stream, detect, pals, dither>>

InitCut == CutInit /\ LzwIdle /\ StreamIdle /\ DetectIdle /\ PalsIdle /\ DitherIdle
NextCut == CutLoadFp \/ CutLoadMem
SpecCut == InitCut /\ [][NextCut]_vars

\* C14: after a load that returned NULL the last error is not "no error".
C14_NullHasError ==
    codec.pc = "cut_loaded" /\ codec.res.status = "null" => codec.res.err # "no error"

(***************************************************************************)
(* The dimensions specification: a file of each format whose header        *)
(* carries a width and a height from DimValues, at least one of them zero  *)
(* or above the limit of 23000, is loaded with bm_load_fp or bm_load_mem.  *)
(* The files are those the save functions write for a 1 x 1 bitmap, with   *)
(* the size fields of the header overwritten, and a plain PGM file.        *)
(***************************************************************************)
DimValues == {0, 1, 23001, 65535}

DimBitmap == [w |-> 1, h |-> 1, data |-> <<-15720400>>, color |-> -1, palette |-> NULL]

Patch(file, off, bytes) ==
    SubSeq(file, 1, off) \o bytes \o SubSeq(file, off + Len(bytes) + 1, Len(file))

\* the decimal digits of n >= 0 as characters
RECURSIVE DecStr(_)
DecStr(n) == IF n < 10 THEN <<48 + n>> ELSE DecStr(n \div 10) \o <<48 + (n % 10)>>

\* where the size fields start in the header of each format
DimOffset(fmt) ==
    CASE fmt = "bmp" -> 18 [] fmt = "gif" -> 6 [] fmt = "pcx" -> 4 [] fmt = "tga" -> 12

DimFields(fmt, w, h) ==
    CASE fmt = "bmp" -> LE32(w) \o LE32(h)
      [] fmt = "pcx" ->
            \* width = xmax - xmin + 1, height = ymax - ymin + 1
            LE16(IF w = 0 THEN 1 ELSE 0) \o LE16(IF h = 0 THEN 1 ELSE 0)
            \o LE16(IF w = 0 THEN 0 ELSE w - 1) \o LE16(IF h = 0 THEN 0 ELSE h - 1)
      [] OTHER -> LE16(w) \o LE16(h)

DimFile(fmt, w, h) ==
    IF fmt = "pgm"
    THEN <<80, 50, 10>> \o DecStr(w) \o <<32>> \o DecStr(h)
         \o <<10, 50, 53, 53, 10, 49, 50, 56, 10>>
    ELSE Patch(SavedFile(fmt, DimBitmap), DimOffset(fmt), DimFields(fmt, w, h))

DimInit ==
    \E fmt \in {"bmp", "gif", "pcx", "tga", "pgm"} : \E w, h \in DimValues :
        /\ w # 1 \/ h # 1
        /\ codec = [pc |-> "dims", fmt |-> fmt, w |-> w, h |-> h, file |-> DimFile(fmt, w, h)]

DimLoaded(by, res) ==
    [pc |-> "dims_loaded", by |-> by, fmt |-> codec.fmt, w |-> codec.w, h |-> codec.h,
     file |-> codec.file, res |-> res]

DimLoadFp ==
    /\ codec.pc = "dims"
    /\ \E u \in UninitBytes : codec' = DimLoaded("fp", bm_load_fp(codec.file, NewHeap, u))
    /\ UNCHANGED <<lzw, stream, detect, pals, dither>>

DimLoadMem ==
    /\ codec.pc = "dims"
    /\ \E u \in UninitBytes : codec' = DimLoaded("mem", bm_load_mem(codec.file, NewHeap, u))
    /\ UNCHANGED <<lzw, stream, detect, pals, dither>>

InitDims == DimInit /\ LzwIdle /\ StreamIdle /\ DetectIdle /\ PalsIdle /\ DitherIdle
NextDims == DimLoadFp \/ DimLoadMem
SpecDims == InitDims /\ [][NextDims]_vars

\* C15: a file whose header carries a width or a height that is zero or
\* above the limit loads as NULL: the decoder returns, and it does not use
\* the bitmap that bm_create did not create.
C15_BadDimensionsNull ==
    codec.pc = "dims_loaded" => codec.res.status = "null"

(***************************************************************************)
(* The palette-index specification: a 1 x 1 paletted image of each format  *)
(* whose table has ncolors entries and whose one pixel carries the index   *)
(* idx, in range or not, is loaded with bm_load_fp or bm_load_mem.         *)
(***************************************************************************)
MaxTable == 2
MaxIndex == 3

\* the entries of the colour table, as blue, green, red
IndexTable(n) == SubSeq(<<<<48, 32, 16>>, <<224, 176, 192>>, <<5, 6, 7>>, <<90, 80, 70>>>>, 1, n)

\* a BMP file with struct bmpfile_header, struct bmpfile_dibinfo, the palette
\* and one padded row; the pixel is in the high bits of the first byte
IndexBmp(bitspp, n, idx) ==
    LET bmp_offset == 14 + 40 + 4 * n IN
    <<66, 77>> \o LE32(bmp_offset + 4) \o LE16(0) \o LE16(0) \o LE32(bmp_offset)
    \o LE32(40) \o LE32(1) \o LE32(1) \o LE16(1) \o LE16(bitspp) \o LE32(0) \o LE32(4)
    \o LE32(2835) \o LE32(2835) \o LE32(n) \o LE32(0)
    \o Flatten([k \in 1 .. n |-> IndexTable(n)[k] \o <<0>>])
    \o <<(idx * 2 ^ (8 - bitspp)) % 256, 0, 0, 0>>

\* a colour-mapped TGA file: struct tga_header, the map of 24-bit entries
\* and one pixel, raw (type 1) or as a run-length packet of one (type 9)
IndexTga(img_type, n, idx) ==
    <<0, 1, img_type>> \o LE16(0) \o LE16(n) \o <<24>> \o LE16(0) \o LE16(0)
    \o LE16(1) \o LE16(1) \o <<8, 0>>
    \o Flatten(IndexTable(n))
    \o (IF img_type = 9 THEN <<128, idx>> ELSE <<idx>>)

\* a GIF file with a global colour table of 2 entries and one image whose
\* data are the 3-bit codes clear (4), idx, end of information (5)
IndexGif(idx) ==
    LET codes == 4 + 8 * idx + 64 * 5 IN
    <<71, 73, 70, 56, 57, 97>> \o LE16(1) \o LE16(1) \o <<128, 0, 0>>
    \o <<16, 32, 48, 192, 176, 224>>
    \o <<44>> \o LE16(0) \o LE16(0) \o LE16(1) \o LE16(1) \o <<0>>
    \o <<2, 2, codes % 256, codes \div 256, 0, 59>>

IndexInit ==
    \E idx \in 0 .. MaxIndex :
        \/ \E n \in 1 .. MaxTable : \E bitspp \in {1, 4, 8} :
              /\ idx < 2 ^ bitspp
              /\ codec = [pc |-> "index", fmt |-> "bmp", kind |-> bitspp, n |-> n, idx |-> idx,
                          file |-> IndexBmp(bitspp, n, idx)]
        \/ \E n \in 1 .. MaxTable : \E img_type \in {1, 9} :
              codec = [pc |-> "index", fmt |-> "tga", kind |-> img_type, n |-> n, idx |-> idx,
                       file |-> IndexTga(img_type, n, idx)]
        \/ codec = [pc |-> "index", fmt |-> "gif", kind |-> 0, n |-> 2, idx |-> idx,
                    file |-> IndexGif(idx)]

IndexLoaded(by, res) ==
    [pc |-> "index_loaded", by |-> by, fmt |-> codec.fmt, kind |-> codec.kind, n |-> codec.n,
     idx |-> codec.idx, file |-> codec.file, res |-> res]

IndexLoadFp ==
    /\ codec.pc = "index"
    /\ \E u \in UninitBytes : codec' = IndexLoaded("fp", bm_load_fp(codec.file, NewHeap, u))
    /\ UNCHANGED <<lzw, stream, detect, pals, dither>>

IndexLoadMem ==
    /\ codec.pc = "index"
    /\ \E u \in UninitBytes : codec' = IndexLoaded("mem", bm_load_mem(codec.file, NewHeap, u))
    /\ UNCHANGED <<lzw, stream, detect, pals, dither>>

InitIndex == IndexInit /\ LzwIdle /\ StreamIdle /\ DetectIdle /\ PalsIdle /\ DitherIdle
NextIndex == IndexLoadFp \/ IndexLoadMem
SpecIndex == InitIndex /\ [][NextIndex]_vars

\* C16: a pixel index that is not below the number of entries of the colour
\* table makes the load return NULL: no assertion fails, nothing outside the
\* table is read and no other colour is stored.
C16_BadIndexNull ==
    codec.pc = "index_loaded" /\ codec.idx >= codec.n => codec.res.status = "null"

(***************************************************************************)
(* The interlace specification: an interlaced GIF image of width w and     *)
(* height h, at row `top` of a canvas that it fills to the bottom, is      *)
(* loaded.  Every pixel of row k of the data carries the palette index     *)
(* (k + seed) % 8, so the colour of a pixel of the canvas tells which row  *)
(* of the data was written there.                                          *)
(***************************************************************************)
MaxRows == 8
MaxCols == 2
MaxTop == 1
IntlSeeds == {0, 3, 5}

\* the entries of the global colour table, as red, green, blue
IntlColor(j) == <<30 * (j + 1), j, 255 - j>>

IntlIndex(seed, k) == (k + seed) % 8

\* 4-bit codes, two to a byte, the first in the low bits: a clear code (8)
\* before every index, the end code (9) last
IntlCodes(seed, w, h) ==
    Flatten([i \in 1 .. w * h |-> <<8, IntlIndex(seed, (i - 1) \div w)>>]) \o <<9>>

IntlPacked(codes) ==
    [j \in 1 .. (Len(codes) + 1) \div 2 |->
        codes[2 * j - 1] + 16 * (IF 2 * j <= Len(codes) THEN codes[2 * j] ELSE 0)]

IntlFile(seed, w, h, top) ==
    <<71, 73, 70, 56, 57, 97>> \o LE16(w) \o LE16(top + h) \o <<130, 0, 0>>
    \o Flatten([j \in 1 .. 8 |-> IntlColor(j - 1)])
    \o <<44>> \o LE16(0) \o LE16(top) \o LE16(w) \o LE16(h) \o <<64>>
    \o <<3>> \o gif_sub_blocks(IntlPacked(IntlCodes(seed, w, h)), (2 * w * h + 2) \div 2)
    \o <<0, 59>>

IntlInit ==
    \E seed \in IntlSeeds : \E w \in 1 .. MaxCols : \E h \in 1 .. MaxRows : \E top \in 0 .. MaxTop :
        codec = [pc |-> "intl", seed |-> seed, w |-> w, h |-> h, top |-> top,
                 file |-> IntlFile(seed, w, h, top)]

IntlLoaded(by, res) ==
    [pc |-> "intl_loaded", by |-> by, seed |-> codec.seed, w |-> codec.w, h |-> codec.h,
     top |-> codec.top, res |-> res]

IntlLoadFp ==
    /\ codec.pc = "intl"
    /\ \E u \in UninitBytes : codec' = IntlLoaded("fp", bm_load_fp(codec.file, NewHeap, u))
    /\ UNCHANGED <<lzw, stream, detect, pals, dither>>

IntlLoadMem ==
    /\ codec.pc = "intl"
    /\ \E u \in UninitBytes : codec' = IntlLoaded("mem", bm_load_mem(codec.file, NewHeap, u))
    /\ UNCHANGED <<lzw, stream, detect, pals, dither>>

InitIntl == IntlInit /\ LzwIdle /\ StreamIdle /\ DetectIdle /\ PalsIdle /\ DitherIdle
NextIntl == IntlLoadFp \/ IntlLoadMem
SpecIntl == InitIntl /\ [][NextIntl]_vars

\* the rows start, start + step, ... that are below h
RECURSIVE PassRows(_, _, _)
PassRows(start, step, h) ==
    IF start >= h THEN <<>> ELSE <<start>> \o PassRows(start + step, step, h)

\* the rows in the order of the four passes
InterlaceRows(h) ==
    PassRows(0, 8, h) \o PassRows(4, 8, h) \o PassRows(2, 4, h) \o PassRows(1, 2, h)

\* C19: row k of the data of an interlaced image of height h >= 1 is written
\* to row r_k of the image, where r_0, r_1, ... are the rows 0, 8, 16, ..,
\* then 4, 12, .., then 2, 6, 10, .., then 1, 3, 5, .. that are below h;
\* these are all the rows of the image, each once, also for h < 5.
C19_InterlacePermutation ==
    codec.pc = "intl_loaded" =>
        /\ codec.res.status = "ok"
        /\ Len(InterlaceRows(codec.h)) = codec.h
        /\ \A k \in 0 .. codec.h - 1 : \A x \in 0 .. codec.w - 1 :
              LET e == IntlColor(IntlIndex(codec.seed, k)) IN
              BM_GET(codec.res.b, x, codec.top + InterlaceRows(codec.h)[k + 1])
                  = RGBA(e[1], e[2], e[3], 255)

(***************************************************************************)
(* The transparency specification: a GIF image of up to MaxTransW x 1      *)
(* pixels that follows a graphic control extension with the transparent    *)
(* flag set is loaded.  The global colour table has four entries; the      *)
(* value of some of them, read as a number, is the index of another entry. *)
(***************************************************************************)
MaxTransW == 2

\* the entries of the global colour table, as red, green, blue
TransTable == <<<<0, 0, 1>>, <<0, 0, 0>>, <<16, 32, 48>>, <<0, 0, 3>>>>

TransPixels == UNION {[1 .. w -> 0 .. 3] : w \in 1 .. MaxTransW}

\* fields: the transparent flag (bit 0) and the disposal method (bits 2-4)
TransFile(pixels, fields, trans_index) ==
    <<71, 73, 70, 56, 57, 97>> \o LE16(Len(pixels)) \o LE16(1) \o <<129, 0, 0>>
    \o Flatten(TransTable)
    \o <<33, 249, 4, fields>> \o LE16(0) \o <<trans_index, 0>>
    \o <<44>> \o LE16(0) \o LE16(0) \o LE16(Len(pixels)) \o LE16(1) \o <<0>>
    \o <<3>>
    \o gif_sub_blocks(IntlPacked(Flatten([i \in 1 .. Len(pixels) |-> <<8, pixels[i]>>])
                                 \o <<9>>), Len(pixels) + 1)
    \o <<0, 59>>

TransInit ==
    \E pixels \in TransPixels : \E trans_index \in 0 .. 3 : \E fields \in {1, 5} :
        codec = [pc |-> "trans", pixels |-> pixels, trans_index |-> trans_index,
                 file |-> TransFile(pixels, fields, trans_index)]

TransLoaded(by, res) ==
    [pc |-> "trans_loaded", by |-> by, pixels |-> codec.pixels,
     trans_index |-> codec.trans_index, file |-> codec.file, res |-> res]

TransLoadFp ==
    /\ codec.pc = "trans"
    /\ \E u \in UninitBytes : codec' = TransLoaded("fp", bm_load_fp(codec.file, NewHeap, u))
    /\ UNCHANGED <<lzw, stream, detect, pals, dither>>

TransLoadMem ==
    /\ codec.pc = "trans"
    /\ \E u \in UninitBytes : codec' = TransLoaded("mem", bm_load_mem(codec.file, NewHeap, u))
    /\ UNCHANGED <<lzw, stream, detect, pals, dither>>

InitTrans == TransInit /\ LzwIdle /\ StreamIdle /\ DetectIdle /\ PalsIdle /\ DitherIdle
NextTrans == TransLoadFp \/ TransLoadMem
SpecTrans == InitTrans /\ [][NextTrans]_vars

\* C20: with the transparent flag of the graphic control extension set, a
\* pixel is written with alpha 0x00 exactly when its colour index equals
\* trans_index, and with alpha 0xFF otherwise.
C20_TransparentByIndex ==
    codec.pc = "trans_loaded" =>
        /\ codec.res.status = "ok"
        /\ \A x \in 1 .. Len(codec.pixels) :
              GetA(codec.res.b.data[x]) = IF codec.pixels[x] = codec.trans_index THEN 0 ELSE 255

(***************************************************************************)
(* The disposal specification: a GIF image that follows a graphic control  *)
(* extension whose disposal method is 2 (restore to background) is loaded. *)
(* The canvas is one column wider than the image; the colour table is      *)
(* TransTable and the background is one of its four entries.               *)
(***************************************************************************)
DisposeFile(pixels, fields, trans_index, background) ==
    <<71, 73, 70, 56, 57, 97>> \o LE16(Len(pixels) + 1) \o LE16(1) \o <<129, background, 0>>
    \o Flatten(TransTable)
    \o <<33, 249, 4, fields>> \o LE16(0) \o <<trans_index, 0>>
    \o <<44>> \o LE16(0) \o LE16(0) \o LE16(Len(pixels)) \o LE16(1) \o <<0>>
    \o <<3>>
    \o gif_sub_blocks(IntlPacked(Flatten([i \in 1 .. Len(pixels) |-> <<8, pixels[i]>>])
                                 \o <<9>>), Len(pixels) + 1)
    \o <<0, 59>>

\* fields 8: disposal method 2; fields 9: the transparent flag as well
DisposeInit ==
    \E pixels \in TransPixels : \E background \in 0 .. 3 : \E trans_index \in 0 .. 1 :
    \E fields \in {8, 9} :
        codec = [pc |-> "dispose", pixels |-> pixels, background |-> background,
                 fields |-> fields, trans_index |-> trans_index,
                 file |-> DisposeFile(pixels, fields, trans_index, background)]

DisposeLoaded(by, res) ==
    [pc |-> "dispose_loaded", by |-> by, pixels |-> codec.pixels,
     background |-> codec.background, fields |-> codec.fields,
     trans_index |-> codec.trans_index, res |-> res]

DisposeLoadFp ==
    /\ codec.pc = "dispose"
    /\ \E u \in UninitBytes : codec' = DisposeLoaded("fp", bm_load_fp(codec.file, NewHeap, u))
    /\ UNCHANGED <<lzw, stream, detect, pals, dither>>

DisposeLoadMem ==
    /\ codec.pc = "dispose"
    /\ \E u \in UninitBytes : codec' = DisposeLoaded("mem", bm_load_mem(codec.file, NewHeap, u))
    /\ UNCHANGED <<lzw, stream, detect, pals, dither>>

InitDispose == DisposeInit /\ LzwIdle /\ StreamIdle /\ DetectIdle /\ PalsIdle /\ DitherIdle
NextDispose == DisposeLoadFp \/ DisposeLoadMem
SpecDispose == InitDispose /\ [][NextDispose]_vars

\* C21: the pen of the GIF canvas holds the RGB of the background colour of
\* the logical screen, with alpha 0: an image whose disposal method is 2 is
\* not plotted, its rectangle is filled with the background colour.
C21_DisposeFillsBackground ==
    codec.pc = "dispose_loaded" =>
        /\ codec.res.status = "ok"
        /\ LET bg == TransTable[codec.background + 1] IN
           \A x \in 1 .. Len(codec.pixels) :
              codec.res.b.data[x] = RGBA(bg[1], bg[2], bg[3], 0)

(***************************************************************************)
(* The corrupt-code specification: a GIF whose only image (2x1) has the    *)
(* 4-bit LZW codes clear, p, c, end. After the clear code the next free    *)
(* index of the dictionary is 10, so c = 10 is the code that is not in the *)
(* table yet, and a larger c is a code no encoder can have written.        *)
(***************************************************************************)
BadCodes == {1, 10, 11, 15}

BadCodeFile(p, c, background) ==
    <<71, 73, 70, 56, 57, 97>> \o LE16(2) \o LE16(1) \o <<129, background, 0>>
    \o Flatten(TransTable)
    \o <<44>> \o LE16(0) \o LE16(0) \o LE16(2) \o LE16(1) \o <<0>>
    \o <<3>> \o gif_sub_blocks(IntlPacked(<<8, p, c, 9>>), 2)
    \o <<0, 59>>

BadCodeInit ==
    \E p \in 0 .. 3 : \E c \in BadCodes : \E background \in 0 .. 3 :
        codec = [pc |-> "badcode", p |-> p, c |-> c, background |-> background,
                 file |-> BadCodeFile(p, c, background)]

BadCodeLoaded(by, res) ==
    [pc |-> "badcode_loaded", by |-> by, p |-> codec.p, c |-> codec.c,
     background |-> codec.background, res |-> res]

BadCodeLoadFp ==
    /\ codec.pc = "badcode"
    /\ \E u \in UninitBytes : codec' = BadCodeLoaded("fp", bm_load_fp(codec.file, NewHeap, u))
    /\ UNCHANGED <<lzw, stream, detect, pals, dither>>

BadCodeLoadMem ==
    /\ codec.pc = "badcode"
    /\ \E u \in UninitBytes : codec' = BadCodeLoaded("mem", bm_load_mem(codec.file, NewHeap, u))
    /\ UNCHANGED <<lzw, stream, detect, pals, dither>>

InitBadCode == BadCodeInit /\ LzwIdle /\ StreamIdle /\ DetectIdle /\ PalsIdle /\ DitherIdle
NextBadCode == BadCodeLoadFp \/ BadCodeLoadMem
SpecBadCode == InitBadCode /\ [][NextBadCode]_vars

\* C22: when the LZW stream of a GIF image holds a code greater than the
\* next free index of the dictionary, the load of that GIF returns NULL; no
\* bitmap is returned with the image left out.
C22_BadCodeNull ==
    codec.pc = "badcode_loaded" /\ codec.c > 10 => codec.res.status = "null"

(***************************************************************************)
(* The LZW reading specification: lzw_decode_bytes is given data_len bytes *)
(* of any content, as gif_read_tbid gives it the buffer of                 *)
(* gif_data_sub_blocks: the data bytes, a zero byte at index data_len, and *)
(* after that memory that belongs to somebody else.                        *)
(***************************************************************************)
MaxData == 2
ReadBytes == {0, 40, 68, 159, 255}
ReadInputs == UNION {[1 .. n -> ReadBytes] : n \in 1 .. MaxData}

LzwReadInit ==
    \E cs \in {2, 3} : \E S \in ReadInputs :
        lzw = [pc |-> "data", bytes |-> S, code_size |-> cs]

\* bytes = gif_data_sub_blocks(rd, &len);
\* decoded = lzw_decode_bytes(bytes, len, min_code_size, &outlen);
LzwReadDecode ==
    /\ lzw.pc = "data"
    /\ \E t \in UninitBytes :
         lzw' = [pc |-> "data_decoded", bytes |-> lzw.bytes, code_size |-> lzw.code_size,
                 tail |-> t,
                 dec |-> lzw_decode_bytes([bytes |-> lzw.bytes \o <<0>>, tail |-> t],
                                          Len(lzw.bytes), lzw.code_size)]
    /\ UNCHANGED <<codec, stream, detect, pals, dither>>

InitLzwRead == LzwReadInit /\ CodecIdle /\ StreamIdle /\ DetectIdle /\ PalsIdle /\ DitherIdle
NextLzwRead == LzwReadDecode
SpecLzwRead == InitLzwRead /\ [][NextLzwRead]_vars

\* C23: whatever the data_len data bytes are, lzw_decode_bytes returns, and
\* the greatest byte index it has read is at most data_len, the last index
\* of the data_len + 1 bytes that gif_data_sub_blocks allocated.
C23_ReadsInsideBuffer ==
    lzw.pc = "data_decoded" =>
        /\ lzw.dec.status \in {"ok", "null", "ub"}
        /\ lzw.dec.maxread <= Len(lzw.bytes)

(***************************************************************************)
(* The padding specification: one-plane PCX files whose bytes_per_line is  *)
(* the width plus some padding bytes, written either one by one or as one  *)
(* run, are loaded.                                                        *)
(***************************************************************************)
MaxPad == 2
MaxPadW == 2
MaxPadH == 2
PadSeeds == {0, 3}

\* the palette index of pixel (x, y), never a run marker
PadIndex(seed, w, x, y) == ((seed + x + w * y) % 8) + 1
PadPalette == Flatten([k \in 1 .. 256 |-> <<k - 1, (2 * (k - 1)) % 256, 256 - k>>])

PadRow(seed, w, y, pad, style, padval) ==
    [x1 \in 1 .. w |-> PadIndex(seed, w, x1 - 1, y)]
    \o (IF pad = 0 THEN <<>>
        ELSE IF style = "run" THEN <<192 + pad, padval>>
        ELSE [k \in 1 .. pad |-> padval])

PadFile(seed, w, h, pad, style, padval) ==
    pcx_header(5, 1, 8, 0, 0, w - 1, h - 1, h, w, 1, w + pad, 1)
    \o Flatten([y1 \in 1 .. h |-> PadRow(seed, w, y1 - 1, pad, style, padval)])
    \o <<12>> \o PadPalette

PadInit ==
    \E seed \in PadSeeds : \E w \in 1 .. MaxPadW : \E h \in 1 .. MaxPadH :
    \E pad \in 0 .. MaxPad : \E style \in {"bytes", "run"} : \E padval \in {0, 20} :
        codec = [pc |-> "pad", seed |-> seed, w |-> w, h |-> h, pad |-> pad,
                 style |-> style, padval |-> padval,
                 file |-> PadFile(seed, w, h, pad, style, padval)]

PadLoadFp ==
    /\ codec.pc = "pad"
    /\ \E u \in UninitBytes :
         codec' = [pc |-> "pad_loaded", seed |-> codec.seed, w |-> codec.w, h |-> codec.h,
                   pad |-> codec.pad, style |-> codec.style, padval |-> codec.padval,
                   res |-> bm_load_fp(codec.file, NewHeap, u)]
    /\ UNCHANGED <<lzw, stream, detect, pals, dither>>

InitPad == PadInit /\ LzwIdle /\ StreamIdle /\ DetectIdle /\ PalsIdle /\ DitherIdle
NextPad == PadLoadFp
SpecPad == InitPad /\ [][NextPad]_vars

\* C25: bytes_per_line decoded bytes are consumed for every row, the
\* padding behind the width included: for any bytes_per_line >= width every
\* row is decoded from the first byte of its own data, so each pixel has
\* the palette colour of its own index.
C25_RowsStartAtRowData ==
    codec.pc = "pad_loaded" =>
        /\ codec.res.status = "ok"
        /\ \A x \in 0 .. codec.w - 1 : \A y \in 0 .. codec.h - 1 :
              LET i == PadIndex(codec.seed, codec.w, x, y)
                  c == BM_GET(codec.res.b, x, y)
              IN GetR(c) = i /\ GetG(c) = 2 * i /\ GetB(c) = 255 - i

(***************************************************************************)
(* The packet specification: run-length encoded true-colour TGA files of   *)
(* w x h pixels are loaded whose last packet counts `over` pixels more     *)
(* than the image has left.                                                *)
(***************************************************************************)
MaxRleW == 2
MaxRleH == 2
MaxOver == 2

\* the B, G, R bytes of pixel k of the data
RlePixel(k) == <<10 * k, 20 * k, 30 * k>>

\* "run": one run packet for the whole image; "raw": one raw packet; "both":
\* a raw packet for the first pixel and a run packet for the rest
RlePackets(kind, np, over) ==
    CASE kind = "run" -> <<128 + np + over - 1>> \o RlePixel(1)
      [] kind = "raw" -> <<np + over - 1>> \o Flatten([k \in 1 .. np + over |-> RlePixel(k)])
      [] OTHER -> <<0>> \o RlePixel(1)
                  \o (IF np + over = 1 THEN <<>> ELSE <<128 + np + over - 2>> \o RlePixel(2))

RleFile(kind, w, h, over, img_desc) ==
    tga_header(0, 0, 10, 0, 0, 0, 0, 0, w, h, 24, img_desc)
    \o RlePackets(kind, w * h, over)

RleInit ==
    \E kind \in {"run", "raw", "both"} : \E w \in 1 .. MaxRleW : \E h \in 1 .. MaxRleH :
    \E over \in 0 .. MaxOver : \E img_desc \in {0, 32} :
        codec = [pc |-> "rle", kind |-> kind, w |-> w, h |-> h, over |-> over,
                 img_desc |-> img_desc, file |-> RleFile(kind, w, h, over, img_desc)]

RleLoaded(by, res) ==
    [pc |-> "rle_loaded", by |-> by, kind |-> codec.kind, w |-> codec.w, h |-> codec.h,
     over |-> codec.over, img_desc |-> codec.img_desc, res |-> res]

RleLoadFp ==
    /\ codec.pc = "rle"
    /\ \E u \in UninitBytes : codec' = RleLoaded("fp", bm_load_fp(codec.file, NewHeap, u))
    /\ UNCHANGED <<lzw, stream, detect, pals, dither>>

RleLoadMem ==
    /\ codec.pc = "rle"
    /\ \E u \in UninitBytes : codec' = RleLoaded("mem", bm_load_mem(codec.file, NewHeap, u))
    /\ UNCHANGED <<lzw, stream, detect, pals, dither>>

InitRle == RleInit /\ LzwIdle /\ StreamIdle /\ DetectIdle /\ PalsIdle /\ DitherIdle
NextRle == RleLoadFp \/ RleLoadMem
SpecRle == InitRle /\ [][NextRle]_vars

\* C26: the decoding of an RLE TGA stops once W*H pixels are written,
\* whatever the count byte of a packet: the load returns the bitmap of the
\* first W*H pixels of the packets, and nothing is written to a pixel index
\* >= W*H or to a row outside 0 .. H-1.
C26_RleStopsAtImageEnd ==
    codec.pc = "rle_loaded" =>
        /\ codec.res.status = "ok"
        /\ Len(codec.res.b.data) = codec.w * codec.h

(***************************************************************************)
(* The P4 specification: a black and white bitmap is written as a P4 file, *)
(* either by bm_save_ppm (built with PPM_BINARY) or packed as the format   *)
(* defines it, ceil(w / 8) bytes for a row; the file is loaded again.      *)
(***************************************************************************)
MaxP4H == 2
P4Widths == {1, 7, 8, 9, 16}
P4Seeds == 0 .. 3

P4Black(seed, x, y) == (x * (seed + 1) + 2 * y + x \div 3) % 3 = 0
P4Bitmap(seed, w, h) ==
    [bm_create(w, h) EXCEPT !.data = [k \in 1 .. w * h |->
        IF P4Black(seed, (k - 1) % w, (k - 1) \div w) THEN -16777216 ELSE -1]]

\* case 4 of bm_save_ppm, the loop over x of row y: a byte is written each
\* time the mask runs out, and after the loop `if(mask)`
RECURSIVE ppm_save_p4_row(_, _, _, _, _, _)
ppm_save_p4_row(b, y, x, mask, byte, out) ==
    IF ~(x < b.w) THEN (IF mask # 0 THEN out \o <<byte>> ELSE out)
    ELSE LET c == BM_GET(b, x, y)
             byte1 == IF c % 16777216 = 0 THEN byte + mask ELSE byte
         IN IF mask \div 2 = 0
            THEN ppm_save_p4_row(b, y, x + 1, 128, 0, out \o <<byte1>>)
            ELSE ppm_save_p4_row(b, y, x + 1, mask \div 2, byte1, out)

\* put_text("P%d\n", type); put_text("%d %d\n", b->w, b->h); then the rows
ppm_save_p4(b) ==
    <<80, 52, 10>> \o DecStr(b.w) \o <<32>> \o DecStr(b.h) \o <<10>>
    \o Flatten([y1 \in 1 .. b.h |-> ppm_save_p4_row(b, y1 - 1, 0, 128, 0, <<>>)])

\* The file as the format defines it: bit 7 - (x mod 8) of byte
\* y * ceil(w / 8) + floor(x / 8) of the body is pixel (x, y), 1 for black.
P4RowBytes(w) == (w + 7) \div 8
P4Bit(b, x, y, k) == IF x < b.w /\ BM_GET(b, x, y) % 16777216 = 0 THEN 2^(7 - k) ELSE 0
P4Packed(b) ==
    <<80, 52, 10>> \o DecStr(b.w) \o <<32>> \o DecStr(b.h) \o <<10>>
    \o [n \in 1 .. b.h * P4RowBytes(b.w) |->
          LET y == (n - 1) \div P4RowBytes(b.w)
              j == (n - 1) % P4RowBytes(b.w)
          IN P4Bit(b, 8 * j, y, 0) + P4Bit(b, 8 * j + 1, y, 1) + P4Bit(b, 8 * j + 2, y, 2)
             + P4Bit(b, 8 * j + 3, y, 3) + P4Bit(b, 8 * j + 4, y, 4)
             + P4Bit(b, 8 * j + 5, y, 5) + P4Bit(b, 8 * j + 6, y, 6)
             + P4Bit(b, 8 * j + 7, y, 7)]

P4HeaderLen(b) == 5 + Len(DecStr(b.w)) + Len(DecStr(b.h))

P4Init ==
    \E seed \in P4Seeds : \E w \in P4Widths : \E h \in 1 .. MaxP4H :
        codec = [pc |-> "p4", b |-> P4Bitmap(seed, w, h)]

\* bm_save(b, "x.pbm")
P4Save ==
    /\ codec.pc = "p4"
    /\ codec' = [pc |-> "p4_file", by |-> "bm_save", b |-> codec.b,
                 file |-> ppm_save_p4(codec.b)]
    /\ UNCHANGED <<lzw, stream, detect, pals, dither>>

\* another program writes the file
P4Pack ==
    /\ codec.pc = "p4"
    /\ codec' = [pc |-> "p4_file", by |-> "format", b |-> codec.b, file |-> P4Packed(codec.b)]
    /\ UNCHANGED <<lzw, stream, detect, pals, dither>>

P4LoadFp ==
    /\ codec.pc = "p4_file"
    /\ \E u \in UninitBytes :
         codec' = [pc |-> "p4_loaded", by |-> codec.by, b |-> codec.b,
                   res |-> bm_load_fp(codec.file, NewHeap, u)]
    /\ UNCHANGED <<lzw, stream, detect, pals, dither>>

InitP4 == P4Init /\ LzwIdle /\ StreamIdle /\ DetectIdle /\ PalsIdle /\ DitherIdle
NextP4 == P4Save \/ P4Pack \/ P4LoadFp
SpecP4 == InitP4 /\ [][NextP4]_vars

\* C27: a row of a P4 file is ceil(W / 8) bytes of the body, for every W,
\* the multiples of 8 included: a file packed that way, with a body of
\* exactly H * ceil(W / 8) bytes, loads as the bitmap it was packed from,
\* and the writer emits exactly ceil(W / 8) bytes for a row.
C27_P4RowIsCeilBytes ==
    /\ codec.pc = "p4_loaded" /\ codec.by = "format" =>
          codec.res.status = "ok" /\ codec.res.b.data = codec.b.data
    /\ codec.pc = "p4_file" /\ codec.by = "bm_save" =>
          Len(codec.file) = P4HeaderLen(codec.b) + codec.b.h * P4RowBytes(codec.b.w)

(***************************************************************************)
(* The median cut specification: bm_quantize(b, n) on small bitmaps.       *)
(* qsort leaves the order of pixels with equal keys open, and a division   *)
(* by zero is undefined: the model keeps every outcome.                    *)
(***************************************************************************)
MaxQuantPixels == 4
QuantColors == {RGBA(200, 10, 10, 255), RGBA(10, 100, 10, 255), RGBA(20, 20, 250, 255)}
QuantSizes == {2, 4}

RECURSIVE SumChan(_, _, _)
SumChan(pixels, sh, i) ==
    IF i > Len(pixels) THEN 0 ELSE ((pixels[i] \div sh) % 256) + SumChan(pixels, sh, i + 1)

\* the orders qsort may leave a slice in, sorted by the byte at shift sh
q_sorted(pixels, sh) ==
    {[i \in 1 .. Len(pixels) |-> pixels[p[i]]] :
        p \in {f \in [1 .. Len(pixels) -> 1 .. Len(pixels)] :
                  /\ \A i, k \in 1 .. Len(pixels) : i # k => f[i] # f[k]
                  /\ \A i \in 1 .. Len(pixels) - 1 :
                        (pixels[f[i]] \div sh) % 256 <= (pixels[f[i + 1]] \div sh) % 256}}

\* the channel qrecurse sorts by: min starts at 256 and max at 0, so the
\* spread of an empty slice is -256
q_spread(pixels, sh) ==
    LET vals == {(pixels[i] \div sh) % 256 : i \in 1 .. Len(pixels)}
        mx == IF vals = {} THEN 0 ELSE CHOOSE v \in vals : \A o \in vals : o <= v
        mn == IF vals = {} THEN 256 ELSE CHOOSE v \in vals : \A o \in vals : v <= o
    IN mx - mn
q_channel(pixels) ==
    LET spreadR == q_spread(pixels, 65536)
        spreadG == q_spread(pixels, 256)
        spreadB == q_spread(pixels, 1)
    IN IF spreadR > spreadG THEN (IF spreadR > spreadB THEN 65536 ELSE 1)
       ELSE (IF spreadG > spreadB THEN 256 ELSE 1)

\* qrecurse on the slice `pixels` with n entries to produce: the set of
\* outcomes [status, pal].  aR /= len with len = 0 is undefined: the process
\* is killed by SIGFPE, or the quotient is 0 (as on machines whose divide
\* instruction does not trap).
RECURSIVE qrecurse(_, _)
qrecurse(pixels, n) ==
    LET len == Len(pixels)
        mid == len \div 2
    IN
    IF n = 1 THEN
        IF len = 0 THEN {[status |-> "sigfpe", pal |-> <<>>],
                         [status |-> "ok", pal |-> <<bm_rgb(0, 0, 0)>>]}
        ELSE {[status |-> "ok",
               pal |-> <<bm_rgb(SumChan(pixels, 65536, 1) \div len,
                                SumChan(pixels, 256, 1) \div len,
                                SumChan(pixels, 1, 1) \div len)>>]}
    ELSE UNION {
           UNION {
             {IF l.status # "ok" THEN l
              ELSE IF r.status # "ok" THEN [status |-> r.status, pal |-> l.pal]
              ELSE [status |-> "ok", pal |-> l.pal \o r.pal] :
                r \in qrecurse(SubSeq(s, mid + 1, len), n \div 2)} :
             l \in qrecurse(SubSeq(s, 1, mid), n \div 2)} :
           s \in q_sorted(pixels, q_channel(pixels))}

\* bm_quantize(b, n): n is a power of two in 2 .. 256
bm_quantize(b, n) == qrecurse(b.data, n)

QuantInit ==
    \E w \in 1 .. MaxQuantPixels : \E px \in [1 .. w -> QuantColors] : \E n \in QuantSizes :
        pals = [pc |-> "quantize", b |-> [bm_create(w, 1) EXCEPT !.data = px], n |-> n]

Quantize ==
    /\ pals.pc = "quantize"
    /\ \E res \in bm_quantize(pals.b, pals.n) :
         pals' = [pc |-> "quantized", b |-> pals.b, n |-> pals.n, res |-> res]
    /\ UNCHANGED <<lzw, codec, stream, detect, dither>>

InitQuant == QuantInit /\ LzwIdle /\ CodecIdle /\ StreamIdle /\ DetectIdle /\ DitherIdle
NextQuant == Quantize
SpecQuant == InitQuant /\ [][NextQuant]_vars

\* the mean of the pixels of b at the indices I
QuantMean(b, I) ==
    LET s == SelectSeq([i \in 1 .. Len(b.data) |-> IF i \in I THEN b.data[i] ELSE 0],
                       LAMBDA c : c # 0)
    IN bm_rgb(SumChan(s, 65536, 1) \div Len(s), SumChan(s, 256, 1) \div Len(s),
              SumChan(s, 1, 1) \div Len(s))

\* C28: for every bitmap, those with fewer than K pixels included, and
\* every power of two K, bm_quantize returns a palette of exactly K
\* entries, each of them the channel-wise mean of a non-empty slice of the
\* pixels.
C28_QuantizeReturnsK ==
    pals.pc = "quantized" =>
        /\ pals.res.status = "ok"
        /\ Len(pals.res.pal) = pals.n
        /\ \A k \in 1 .. Len(pals.res.pal) :
              \E I \in SUBSET (1 .. Len(pals.b.data)) :
                 I # {} /\ pals.res.pal[k] = QuantMean(pals.b, I)

(***************************************************************************)
(* The k-means specification: bm_quantize_kmeans(b, K) on small bitmaps.   *)
(* buckets[k].count is not written before the first kmeans_adjust: what a  *)
(* read finds there is any value of UninitCounts.                          *)
(***************************************************************************)
MaxKmeansPixels == 3
MAX_ITERATIONS == 128
KmeansSizes == {2, 3}
UninitCounts == {0, 5}

\* the squared distance of kmeans_categorize_pixels
kmeans_dist(c, p) ==
    (GetR(c) - GetR(p)) * (GetR(c) - GetR(p)) + (GetG(c) - GetG(p)) * (GetG(c) - GetG(p))
    + (GetB(c) - GetB(p)) * (GetB(c) - GetB(p))

\* kmeans_categorize_pixels: cat[i] becomes the first bucket at the least
\* distance (d < minD); the result counts the entries of cat that changed
kmeans_categorize_pixels(bytes, cat, buckets, K) ==
    LET dk(i) == CHOOSE k \in 1 .. K :
                    /\ \A o \in 1 .. K :
                          kmeans_dist(bytes[i], buckets[k].color)
                              <= kmeans_dist(bytes[i], buckets[o].color)
                    /\ \A o \in 1 .. k - 1 :
                          kmeans_dist(bytes[i], buckets[o].color)
                              > kmeans_dist(bytes[i], buckets[k].color)
        cat1 == [i \in 1 .. Len(bytes) |-> dk(i) - 1]
    IN [cat |-> cat1, change |-> Cardinality({i \in 1 .. Len(bytes) : cat[i] # cat1[i]})]

\* kmeans_adjust: the counts and, for the buckets that are not empty, the
\* means of the pixels of each category
kmeans_adjust(bytes, cat, buckets, K) ==
    [k \in 1 .. K |->
        LET s == SelectSeq([i \in 1 .. Len(bytes) |-> IF cat[i] = k - 1 THEN bytes[i] ELSE 0],
                           LAMBDA c : c # 0)
        IN IF Len(s) = 0 THEN [color |-> buckets[k].color, count |-> 0]
           ELSE [color |-> bm_rgb(SumChan(s, 65536, 1) \div Len(s),
                                  SumChan(s, 256, 1) \div Len(s),
                                  SumChan(s, 1, 1) \div Len(s)),
                 count |-> Len(s)]]

\* for(i = 0; i < MAX_ITERATIONS; i++) { ... if(!changes) break; ... }
RECURSIVE kmeans_loop(_, _, _, _, _)
kmeans_loop(bytes, cat, buckets, K, i) ==
    LET c == kmeans_categorize_pixels(bytes, cat, buckets, K) IN
    IF ~(i < MAX_ITERATIONS) THEN [buckets |-> buckets, cat |-> cat, rounds |-> i]
    ELSE IF c.change = 0 THEN [buckets |-> buckets, cat |-> c.cat, rounds |-> i + 1]
    ELSE kmeans_loop(bytes, c.cat, kmeans_adjust(bytes, c.cat, buckets, K), K, i + 1)

\* the orders qsort with kmeans_bucket_cmp may leave the buckets in
kmeans_sorted(buckets) ==
    {[i \in 1 .. Len(buckets) |-> buckets[p[i]]] :
        p \in {f \in [1 .. Len(buckets) -> 1 .. Len(buckets)] :
                  /\ \A i, k \in 1 .. Len(buckets) : i # k => f[i] # f[k]
                  /\ \A i \in 1 .. Len(buckets) - 1 :
                        buckets[f[i]].count >= buckets[f[i + 1]].count}}

\* while(K > 0 && buckets[K-1].count == 0) K--;
RECURSIVE kmeans_trim(_)
kmeans_trim(buckets) ==
    IF buckets # <<>> /\ buckets[Len(buckets)].count = 0
    THEN kmeans_trim(SubSeq(buckets, 1, Len(buckets) - 1))
    ELSE buckets

\* bm_quantize_kmeans(b, K): the outcomes [pal, counts, rounds, cat]; junk[k]
\* is what the memory of buckets[k].count held at the call
bm_quantize_kmeans(b, K, junk) ==
    LET np == Len(b.data)
        pixels == SortNoAlpha(b.data)
        b0 == [k \in 1 .. K |-> [color |-> pixels[((k - 1) * (np - 1)) \div (K - 1) + 1],
                                 count |-> junk[k]]]
        end == kmeans_loop(b.data, [i \in 1 .. np |-> 0], b0, K, 0)
    IN {[pal |-> [i \in 1 .. Len(t) |-> t[i].color],
         counts |-> [i \in 1 .. Len(t) |-> t[i].count],
         rounds |-> end.rounds, cat |-> end.cat, buckets |-> end.buckets] :
           t \in {kmeans_trim(s) : s \in kmeans_sorted(end.buckets)}}

KmeansInit ==
    \E w \in 1 .. MaxKmeansPixels : \E px \in [1 .. w -> QuantColors] : \E K \in KmeansSizes :
        pals = [pc |-> "kmeans", b |-> [bm_create(w, 1) EXCEPT !.data = px], K |-> K]

Kmeans ==
    /\ pals.pc = "kmeans"
    /\ \E junk \in [1 .. pals.K -> UninitCounts] :
       \E res \in bm_quantize_kmeans(pals.b, pals.K, junk) :
         pals' = [pc |-> "kmeans_done", b |-> pals.b, K |-> pals.K, res |-> res]
    /\ UNCHANGED <<lzw, codec, stream, detect, dither>>

InitKmeans == KmeansInit /\ LzwIdle /\ CodecIdle /\ StreamIdle /\ DetectIdle /\ DitherIdle
NextKmeans == Kmeans
SpecKmeans == InitKmeans /\ [][NextKmeans]_vars

\* the pixels of b that the last round assigned to bucket k - 1
KmeansAssigned(k) == {i \in 1 .. Len(pals.b.data) : pals.res.cat[i] = k - 1}

\* C29: bm_quantize_kmeans stops after at most 128 rounds; the palette has
\* at most K entries, the centroids of the buckets that are not empty, in
\* descending order of their counts, a count being the number of pixels
\* the last round assigned to the bucket; for a bitmap of one colour the
\* palette is exactly that colour.
C29_KmeansPalette ==
    pals.pc = "kmeans_done" =>
        LET res == pals.res
            full == {k \in 1 .. pals.K : KmeansAssigned(k) # {}}
        IN
        /\ res.rounds <= MAX_ITERATIONS
        /\ Len(res.pal) <= pals.K
        /\ Len(res.pal) = Cardinality(full)
        /\ \A i \in 1 .. Len(res.pal) :
              \E k \in full : /\ res.pal[i] = QuantMean(pals.b, KmeansAssigned(k))
                              /\ res.counts[i] = Cardinality(KmeansAssigned(k))
        /\ \A i \in 1 .. Len(res.pal) - 1 : res.counts[i] >= res.counts[i + 1]
        /\ (\A i \in 1 .. Len(pals.b.data) : pals.b.data[i] = pals.b.data[1])
              => res.pal = <<pals.b.data[1]>>

(***************************************************************************)
(* The row size specification: BMP files of every accepted depth, with     *)
(* rows padded to four bytes as the format defines them, are loaded; the   *)
(* image-size field of the header is 0 or the size of the pixel data.      *)
(***************************************************************************)
MaxRowW == 3
MaxRowH == 2
RowDepths == {1, 4, 8, 24, 32}

\* rs = ((dib.width * dib.bitspp / 8) + 3) & ~3;
bmp_row_size(width, bitspp) == (((width * bitspp) \div 8 + 3) \div 4) * 4

\* malloc(rs * b->h) or malloc(dib.bmp_bytesz)
bmp_data_size(bmp_bytesz, rs, h) == IF bmp_bytesz = 0 THEN rs * h ELSE bmp_bytesz

\* the indices of data[] that the pixel loops read for pixel (i, j)
bmp_read_indices(bitspp, height, rs, i, j) ==
    LET y == height - j - 1 IN
    CASE bitspp = 8 -> {y * rs + i}
      [] bitspp = 4 -> {y * rs + (i \div 2)}
      [] bitspp = 1 -> {y * rs + (i \div 8)}
      [] bitspp = 32 -> {y * rs + i * 4 + k : k \in 0 .. 3}
      [] OTHER -> {y * rs + i * 3 + k : k \in 0 .. 2}

\* the colour table of the files of depth 1, 4 and 8
RowTable(bitspp) == IndexTable(IF bitspp = 1 THEN 2 ELSE 4)
RowIndex(bitspp, seed, x, y) == (x + y + seed) % Len(RowTable(bitspp))

\* the bytes of image row y, without padding
RowBytes(bitspp, seed, w, y) ==
    LET ix(x) == IF x < w THEN RowIndex(bitspp, seed, x, y) ELSE 0 IN
    CASE bitspp = 1 -> <<128 * ix(0) + 64 * ix(1) + 32 * ix(2)>>
      [] bitspp = 4 -> [k \in 1 .. (w + 1) \div 2 |-> 16 * ix(2 * k - 2) + ix(2 * k - 1)]
      [] bitspp = 8 -> [k \in 1 .. w |-> ix(k - 1)]
      [] bitspp = 24 -> Flatten([k \in 1 .. w |-> RowTable(8)[ix(k - 1) + 1]])
      [] OTHER -> Flatten([k \in 1 .. w |-> RowTable(8)[ix(k - 1) + 1] \o <<255>>])

RowPadded(row) == row \o Zeroes((4 - (Len(row) % 4)) % 4)

\* struct bmpfile_header, struct bmpfile_dibinfo, the colour table and the
\* rows, bottom row first; sized says whether the image-size field is set
RowFile(bitspp, seed, w, h, sized) ==
    LET n == IF bitspp <= 8 THEN Len(RowTable(bitspp)) ELSE 0
        bmp_offset == 14 + 40 + 4 * n
        data == Flatten([r \in 1 .. h |-> RowPadded(RowBytes(bitspp, seed, w, h - r))])
    IN <<66, 77>> \o LE32(bmp_offset + Len(data)) \o LE16(0) \o LE16(0) \o LE32(bmp_offset)
       \o LE32(40) \o LE32(w) \o LE32(h) \o LE16(1) \o LE16(bitspp) \o LE32(0)
       \o LE32(IF sized THEN Len(data) ELSE 0)
       \o LE32(2835) \o LE32(2835) \o LE32(n) \o LE32(0)
       \o Flatten([k \in 1 .. n |-> RowTable(bitspp)[k] \o <<0>>])
       \o data

RowInit ==
    \E bitspp \in RowDepths : \E seed \in {0, 1} : \E w \in 1 .. MaxRowW :
    \E h \in 1 .. MaxRowH : \E sized \in BOOLEAN :
        codec = [pc |-> "rows", bitspp |-> bitspp, seed |-> seed, w |-> w, h |-> h,
                 sized |-> sized, file |-> RowFile(bitspp, seed, w, h, sized)]

\* the load, with the row size and the size of the buffer it worked with
RowLoaded(by, res) ==
    LET rs == bmp_row_size(codec.w, codec.bitspp)
        bmp_bytesz == IF codec.sized THEN U32(codec.file, 34) ELSE 0
    IN [pc |-> "rows_loaded", by |-> by, bitspp |-> codec.bitspp, seed |-> codec.seed,
        w |-> codec.w, h |-> codec.h, sized |-> codec.sized, rs |-> rs,
        size |-> bmp_data_size(bmp_bytesz, rs, codec.h), res |-> res]

RowLoadFp ==
    /\ codec.pc = "rows"
    /\ \E u \in UninitBytes : codec' = RowLoaded("fp", bm_load_fp(codec.file, NewHeap, u))
    /\ UNCHANGED <<lzw, stream, detect, pals, dither>>

RowLoadMem ==
    /\ codec.pc = "rows"
    /\ \E u \in UninitBytes : codec' = RowLoaded("mem", bm_load_mem(codec.file, NewHeap, u))
    /\ UNCHANGED <<lzw, stream, detect, pals, dither>>

InitRows == RowInit /\ LzwIdle /\ StreamIdle /\ DetectIdle /\ PalsIdle /\ DitherIdle
NextRows == RowLoadFp \/ RowLoadMem
SpecRows == InitRows /\ [][NextRows]_vars

\* C30: while the rows of a BMP of depth 1, 4, 8, 24 or 32 and any width
\* are decoded, the row size is at least ceil(W * bpp / 8), and every byte
\* index read for a pixel of a row lies inside that row and inside the
\* buffer that was allocated for the pixel data.
C30_BmpIndicesInsideRow ==
    codec.pc = "rows_loaded" =>
        /\ codec.rs >= (codec.w * codec.bitspp + 7) \div 8
        /\ \A i \in 0 .. codec.w - 1 : \A j \in 0 .. codec.h - 1 :
           \A p \in bmp_read_indices(codec.bitspp, codec.h, codec.rs, i, j) :
              /\ p >= (codec.h - j - 1) * codec.rs
              /\ p < (codec.h - j) * codec.rs
              /\ p < codec.size

====
